---- MODULE Spec2Model ----
(***************************************************************************)
(* Model of liza-snrsl: the graph store (src/src/Graph.js, class Graph),   *)
(* the parser (class SpecParser) and the evaluator (SpecEvaluator.js).     *)
(*                                                                         *)
(* JavaScript arrays are 0-based and TLA+ sequences are 1-based: a node or *)
(* edge id i lives at position i + 1 of its sequence.  `undefined' (an     *)
(* absent map entry, a deleted array slot, an omitted argument) is the     *)
(* integer Undefined for ids and object references, NoKey for an omitted   *)
(* or empty index key and NoIndex for the falsy result of _edgeIndex.      *)
(*                                                                         *)
(* Edge data records are JavaScript objects and the store keeps them by    *)
(* reference, so the model has a heap: edges[i] is a reference into heap,  *)
(* and heap[r] is the value of the symbol-keyed field data[gsym] of the    *)
(* object r (NoSym while the field has not been set).                      *)
(***************************************************************************)
EXTENDS Integers, Sequences, FiniteSets, TLC

\* ------------------------------------------------------------------ bounds
MaxNodes == 2
MaxEdges == 2
MaxOccur == 2

\* ------------------------------------------------------- values and inputs
Undefined == -1
NoKey     == ""
NoIndex   == <<>>
Fresh     == 0

Keys      == {"a", "b"}
OptKeys   == Keys \cup {NoKey}
EdgeKeys  == {"k", NoKey}
DataKinds == {"object", "string"}

EmptyMap == [x \in {} |-> Undefined]

NoEdge == [from |-> Undefined, to |-> Undefined, key |-> NoKey]

NoSym ==
    [id |-> Undefined, index |-> NoIndex, from |-> Undefined,
     fromi |-> Undefined, to |-> Undefined, toi |-> Undefined]

\* node references accepted by nodeLookup: a number, a string (index key),
\* or an object whose field `id' is a number or is missing
NodeRefs ==
    [kind : {"number"}, v : 0 .. MaxNodes - 1]
    \cup [kind : {"string"}, v : Keys]
    \cup [kind : {"object"}, v : (0 .. MaxNodes - 1) \cup {Undefined}]

\* the store as one value, so that handlers compose
\* (issued is history, not a field of Graph: what every edge id was issued
\* for, NoEdge for an array slot whose addEdge call threw after the push)
Store(n, e, i, h, s) ==
    [nodes |-> n, edges |-> e, index |-> i, heap |-> h, issued |-> s]

Return(G, v) == [G |-> G, ok |-> TRUE,  ret |-> v,         err |-> ""]
Throw(G, e)  == [G |-> G, ok |-> FALSE, ret |-> Undefined, err |-> e]

HasNode(G, id) == id \in 0 .. Len(G.nodes) - 1
NodeAt(G, id)  == G.nodes[id + 1]

MapSet(m, k, v) == [x \in DOMAIN m \cup {k} |-> IF x = k THEN v ELSE m[x]]
MapGet(m, k)    == IF k \in DOMAIN m THEN m[k] ELSE Undefined

\* ------------------------------------------------------------------- nodes
addNode(G, data, indexed_by) ==
    IF data # "object"
    THEN Throw(G, "TypeError: Node data must be an object")
    ELSE LET id == (Len(G.nodes) + 1) - 1
             gs == [id |-> id, out |-> EmptyMap, in |-> EmptyMap,
                    eindex |-> EmptyMap, index |-> indexed_by, occur |-> 1]
             G1 == [G EXCEPT !.nodes = Append(@, gs)]
         IN  IF indexed_by # NoKey
             THEN IF MapGet(G1.index, indexed_by) # Undefined
                  THEN Throw(G1, "Error: Node index already exists")
                  ELSE Return([G1 EXCEPT !.index = MapSet(@, indexed_by, id)], id)
             ELSE Return(G1, id)

\* addNodeIfNew without the lookup of the existing index
addNodeIfNew_NoLookup(G, data, indexed_by) ==
    addNode(G, data, indexed_by)

addNodeIfNew(G, data, indexed_by) ==
    IF indexed_by = NoKey
    THEN addNode(G, data, NoKey)
    ELSE LET existing == MapGet(G.index, indexed_by)
         IN  IF existing # Undefined
             THEN Return([G EXCEPT !.nodes[existing + 1].occur = @ + 1], existing)
             ELSE addNode(G, data, indexed_by)

\* nodeLookup returns the pair [id, node]; `def' tells whether node is a node
\* or undefined
RECURSIVE nodeLookup(_, _)
nodeLookup(G, lookup) ==
    IF lookup.kind = "object"
    THEN IF lookup.v = Undefined
         THEN [ok |-> FALSE, id |-> Undefined, def |-> FALSE,
               err |-> "Error: Object is not a node"]
         ELSE [ok |-> TRUE, id |-> lookup.v, def |-> HasNode(G, lookup.v),
               err |-> ""]
    ELSE IF lookup.kind = "number"
    THEN IF ~HasNode(G, lookup.v)
         THEN [ok |-> FALSE, id |-> Undefined, def |-> FALSE,
               err |-> "Error: Node does not exist"]
         ELSE [ok |-> TRUE, id |-> lookup.v, def |-> TRUE, err |-> ""]
    ELSE LET id == MapGet(G.index, lookup.v)
         IN  IF id = Undefined
             THEN [ok |-> FALSE, id |-> Undefined, def |-> FALSE,
                   err |-> "Error: Node index not found"]
             ELSE nodeLookup(G, [kind |-> "number", v |-> id])

\* get: "node" | "undefined" | "null"
get(G, lookup) ==
    LET r == nodeLookup(G, lookup)
    IN  IF ~r.ok THEN "null"
        ELSE IF r.def THEN "node" ELSE "undefined"

\* ------------------------------------------------------------------- edges
\* an edge index that leaves the destination out
edgeIndex_Unscoped(to_id, indexed_by) ==
    IF indexed_by = NoKey THEN NoIndex ELSE <<indexed_by, 0>>

edgeIndex(to_id, indexed_by) ==
    IF indexed_by = NoKey THEN NoIndex ELSE <<indexed_by, to_id>>

\* eout[ id ] = eout[ id ] || []; eout[ id ].push( eid )
AdjPush(m, id, eid) ==
    MapSet(m, id, Append(IF id \in DOMAIN m THEN m[id] ELSE <<>>, eid))

\* An edge data argument is Undefined (omitted), Fresh (an object that is not
\* yet stored in the graph) or a heap reference (an object that is).  A Fresh
\* object is allocated at the end of the heap when it is stored.
DataRef(G, data) == IF data = Fresh THEN Len(G.heap) + 1 ELSE data

PushEdge(G, data) ==
    [G EXCEPT !.edges  = Append(@, DataRef(G, data)),
              !.heap   = IF data = Fresh THEN Append(@, NoSym) ELSE @,
              !.issued = Append(@, NoEdge)]

addEdge(G, from, to, data0, indexed_by) ==
    LET data == IF data0 = Undefined THEN Fresh ELSE data0
        lf   == nodeLookup(G, from)
        lt   == nodeLookup(G, to)
    IN  IF ~lf.ok THEN Throw(G, lf.err)
        ELSE IF ~lt.ok THEN Throw(G, lt.err)
        ELSE
        LET id_from == lf.id
            id_to   == lt.id
            index   == edgeIndex(id_to, indexed_by)
        IN  IF index # NoIndex /\ ~lf.def
            THEN Throw(G, "TypeError: node_from is undefined")
            ELSE IF index # NoIndex
                    /\ MapGet(NodeAt(G, id_from).eindex, index) \notin {Undefined, 0}
            THEN Throw(G, "Error: Edge index already exists for node")
            ELSE
            LET eid == (Len(G.edges) + 1) - 1
                d   == DataRef(G, data)
                G1  == PushEdge(G, data)
            IN  IF ~lf.def THEN Throw(G1, "TypeError: node_from is undefined")
                ELSE IF ~lt.def THEN Throw(G1, "TypeError: node_to is undefined")
                ELSE
                LET eouti == IF id_to \in DOMAIN NodeAt(G, id_from).out
                             THEN Len(NodeAt(G, id_from).out[id_to]) ELSE 0
                    eini  == IF id_from \in DOMAIN NodeAt(G, id_to).in
                             THEN Len(NodeAt(G, id_to).in[id_from]) ELSE 0
                    G2 == [G1 EXCEPT !.nodes[id_from + 1].out = AdjPush(@, id_to, eid)]
                    G3 == [G2 EXCEPT !.nodes[id_to + 1].in = AdjPush(@, id_from, eid)]
                    G4 == [G3 EXCEPT !.heap[d] =
                              [id |-> eid, index |-> index, from |-> id_from,
                               fromi |-> eouti, to |-> id_to, toi |-> eini]]
                    G5 == IF index # NoIndex
                          THEN [G4 EXCEPT !.nodes[id_from + 1].eindex =
                                              MapSet(@, index, eid)]
                          ELSE G4
                IN  Return([G5 EXCEPT !.issued[eid + 1] =
                               [from |-> id_from, to |-> id_to, key |-> indexed_by]],
                           eid)

\* addEdgeIfNew that looks the index up on the destination node
addEdgeIfNew_ByDestination(G, from, to, data, indexed_by) ==
    LET lf == nodeLookup(G, from)
        lt == nodeLookup(G, to)
    IN  IF ~lf.ok THEN Throw(G, lf.err)
        ELSE IF ~lt.ok THEN Throw(G, lt.err)
        ELSE IF ~lt.def THEN Throw(G, "TypeError: node_to is undefined")
        ELSE
        LET index    == edgeIndex(lt.id, indexed_by)
            eindexed == MapGet(NodeAt(G, lt.id).eindex, index)
        IN  IF eindexed # Undefined
            THEN Return(G, eindexed)
            ELSE addEdge(G, from, to, data, indexed_by)

addEdgeIfNew(G, from, to, data, indexed_by) ==
    LET lf == nodeLookup(G, from)
        lt == nodeLookup(G, to)
    IN  IF ~lf.ok THEN Throw(G, lf.err)
        ELSE IF ~lt.ok THEN Throw(G, lt.err)
        ELSE IF ~lf.def THEN Throw(G, "TypeError: node_from is undefined")
        ELSE
        LET index    == edgeIndex(lt.id, indexed_by)
            eindexed == MapGet(NodeAt(G, lf.id).eindex, index)
        IN  IF eindexed # Undefined
            THEN Return(G, eindexed)
            ELSE addEdge(G, from, to, data, indexed_by)

\* removeEdge without the check of the edge's slot
removeEdge_NoCheck(G, given_edge) ==
    LET edge == IF given_edge.kind = "number"
                THEN IF given_edge.v \in 0 .. Len(G.edges) - 1
                     THEN G.edges[given_edge.v + 1] ELSE Undefined
                ELSE given_edge.v
    IN  IF edge = Undefined THEN Throw(G, "ReferenceError: id is not defined")
        ELSE
        LET gedge == IF edge = Fresh THEN NoSym ELSE G.heap[edge]
        IN  IF gedge = NoSym THEN Throw(G, "TypeError: gedge is undefined")
            ELSE
            LET G1 == [G EXCEPT !.nodes[gedge.from + 1].out[gedge.to][gedge.fromi + 1]
                                    = Undefined]
                G2 == [G1 EXCEPT !.nodes[gedge.to + 1].in[gedge.from][gedge.toi + 1]
                                    = Undefined]
            IN  Return([G2 EXCEPT !.edges[gedge.id + 1] = Undefined], Undefined)

\* removeEdge that takes the slot of the newest edge out of the array
\* (splice) where the code leaves a hole (delete)
removeEdge_Splice(G, given_edge) ==
    LET edge == IF given_edge.kind = "number"
                THEN IF given_edge.v \in 0 .. Len(G.edges) - 1
                     THEN G.edges[given_edge.v + 1] ELSE Undefined
                ELSE given_edge.v
    IN  IF edge = Undefined THEN Throw(G, "ReferenceError: id is not defined")
        ELSE
        LET gedge == IF edge = Fresh THEN NoSym ELSE G.heap[edge]
        IN  IF gedge = NoSym THEN Throw(G, "TypeError: gedge is undefined")
            ELSE
            LET chk_edge == G.edges[gedge.id + 1]
            IN  IF chk_edge = Undefined /\ Len(G.edges) >= gedge.id
                THEN Throw(G, "Error: Edge has already been removed")
                ELSE
                LET G1 == [G EXCEPT !.nodes[gedge.from + 1].out[gedge.to][gedge.fromi + 1]
                                        = Undefined]
                    G2 == [G1 EXCEPT !.nodes[gedge.to + 1].in[gedge.from][gedge.toi + 1]
                                        = Undefined]
                IN  Return([G2 EXCEPT !.edges =
                               IF gedge.id + 1 = Len(@)
                               THEN SubSeq(@, 1, Len(@) - 1)
                               ELSE [@ EXCEPT ![gedge.id + 1] = Undefined]],
                           Undefined)

\* given_edge: a number, or an edge data object (a heap reference; the
\* reference Fresh is an object that was never stored as an edge)
removeEdge(G, given_edge) ==
    LET edge == IF given_edge.kind = "number"
                THEN IF given_edge.v \in 0 .. Len(G.edges) - 1
                     THEN G.edges[given_edge.v + 1] ELSE Undefined
                ELSE given_edge.v
    IN  IF edge = Undefined THEN Throw(G, "ReferenceError: id is not defined")
        ELSE
        LET gedge == IF edge = Fresh THEN NoSym ELSE G.heap[edge]
        IN  IF gedge = NoSym THEN Throw(G, "TypeError: gedge is undefined")
            ELSE
            LET chk_edge == G.edges[gedge.id + 1]
            IN  IF chk_edge = Undefined /\ Len(G.edges) >= gedge.id
                THEN Throw(G, "Error: Edge has already been removed")
                ELSE
                LET G1 == [G EXCEPT !.nodes[gedge.from + 1].out[gedge.to][gedge.fromi + 1]
                                        = Undefined]
                    G2 == [G1 EXCEPT !.nodes[gedge.to + 1].in[gedge.from][gedge.toi + 1]
                                        = Undefined]
                IN  Return([G2 EXCEPT !.edges[gedge.id + 1] = Undefined], Undefined)

\* to_all.map( to => this.addEdge( from, to, Object.create( data || {} ),
\* indexed_by ) ): the edges of to_all[i..], in order; a throw ends the map
RECURSIVE addEdgesFrom(_, _, _, _, _, _)
addEdgesFrom(G, from, to_all, i, indexed_by, ids) ==
    IF i > Len(to_all) THEN [G |-> G, ok |-> TRUE, ret |-> ids, err |-> ""]
    ELSE LET r == addEdge(G, from, to_all[i], Fresh, indexed_by)
         IN  IF ~r.ok THEN [G |-> r.G, ok |-> FALSE, ret |-> <<>>, err |-> r.err]
             ELSE addEdgesFrom(r.G, from, to_all, i + 1, indexed_by,
                               Append(ids, r.ret))

addEdges(G, from, to_all, data, indexed_by) ==
    addEdgesFrom(G, from, to_all, 1, indexed_by, <<>>)

\* to_all.map( to => this.addEdgeIfNew( from, to, data, indexed_by ) ): every
\* call receives the caller's one data object
RECURSIVE addEdgesIfNewFrom(_, _, _, _, _, _, _)
addEdgesIfNewFrom(G, from, to_all, i, data, indexed_by, ids) ==
    IF i > Len(to_all) THEN [G |-> G, ok |-> TRUE, ret |-> ids, err |-> ""]
    ELSE LET r     == addEdgeIfNew(G, from, to_all[i], data, indexed_by)
             \* where the caller's object is once a call has stored it
             data1 == IF data = Fresh /\ Len(r.G.heap) > Len(G.heap)
                      THEN Len(r.G.heap) ELSE data
         IN  IF ~r.ok THEN [G |-> r.G, ok |-> FALSE, ret |-> <<>>, err |-> r.err]
             ELSE addEdgesIfNewFrom(r.G, from, to_all, i + 1, data1, indexed_by,
                                    Append(ids, r.ret))

addEdgesIfNew(G, from, to_all, data, indexed_by) ==
    addEdgesIfNewFrom(G, from, to_all, 1, data, indexed_by, <<>>)

\* ------------------------------------------------------------------- state
\* The graph store (nodes, edges, index, heap, issued), the data objects of
\* its nodes and edges (ndata, edata), the parser's promise and row source
\* (parser), the evaluator's promise and position (evaluator), and the
\* XML generator's promise and position (xmlgen), and the arguments and
\* result of a type inference (infer).
VARIABLES nodes, edges, index, heap, issued, ndata, edata, parser, evaluator,
          xmlgen, infer

vars == <<nodes, edges, index, heap, issued, ndata, edata, parser, evaluator,
          xmlgen, infer>>

\* new Promise( ... ) of parse: nothing delivered, nothing tokenized
ParserStart ==
    [rows |-> <<>>, tokens |-> <<>>, promise |-> "pending", source |-> "open",
     uncaught |-> <<>>]

\* evaluate has not been called
EvaluatorStart ==
    [promise |-> "none", node |-> 0, pass |-> "label", reason |-> "",
     steps |-> <<>>]

\* generateXml has not been called
XmlgenStart == [promise |-> "none", node |-> 0, last |-> 0, reason |-> ""]

InferStart == [conds |-> <<>>, opts |-> {}, qtype |-> "undefined"]

Graph == Store(nodes, edges, index, heap, issued)

\* arguments of the calls: the ends of an edge, the destinations of a batch
\* call, an edge data argument, the edge argument of removeEdge
EdgeEnds ==
    [kind : {"number"}, v : 0 .. MaxNodes - 1]
    \cup [kind : {"string"}, v : Keys]
    \cup [kind : {"object"}, v : {MaxNodes - 1}]
ToLists ==
    {<<[kind |-> "number", v |-> a], [kind |-> "number", v |-> b]>> :
        a \in 0 .. MaxNodes - 1, b \in 0 .. MaxNodes - 1}
EdgeData == {Undefined, Fresh}
EdgeArgs ==
    [kind : {"number", "object"}, v : 0 .. MaxEdges]

Bounded(G) ==
    /\ Len(G.nodes) <= MaxNodes
    /\ Len(G.edges) <= MaxEdges
    /\ \A i \in 1 .. Len(G.nodes) : G.nodes[i].occur <= MaxOccur

\* the id a reference resolves to (Undefined when nodeLookup throws)
Resolve(G, ref) == nodeLookup(G, ref).id

Becomes(G) ==
    /\ Bounded(G)
    /\ nodes' = G.nodes
    /\ edges' = G.edges
    /\ index' = G.index
    /\ heap' = G.heap
    /\ issued' = G.issued
    /\ UNCHANGED <<ndata, edata, parser, evaluator, xmlgen, infer>>

Init ==
    /\ nodes = <<>>
    /\ edges = <<>>
    /\ index = EmptyMap
    /\ heap = <<>>
    /\ issued = <<>>
    /\ ndata = <<>>
    /\ edata = <<>>
    /\ parser = ParserStart
    /\ evaluator = EvaluatorStart
    /\ xmlgen = XmlgenStart
    /\ infer = InferStart

\* A call that would take the store beyond the bounds is left out (Becomes);
\* the guards on the lengths only spare the evaluation of such calls.
AddNode ==
    /\ Len(nodes) < MaxNodes
    /\ \E data \in DataKinds, k \in OptKeys :
           \E r \in {addNode(Graph, data, k)} : Becomes(r.G)

AddNodeIfNew ==
    \E data \in DataKinds, k \in OptKeys :
        \E r \in {addNodeIfNew(Graph, data, k)} : Becomes(r.G)

AddEdge ==
    /\ Len(edges) < MaxEdges
    /\ \E from \in EdgeEnds, to \in EdgeEnds, data \in EdgeData, k \in EdgeKeys :
           \E r \in {addEdge(Graph, from, to, data, k)} : Becomes(r.G)

AddEdgeIfNew ==
    /\ Len(edges) < MaxEdges
    /\ \E from \in EdgeEnds, to \in EdgeEnds, k \in EdgeKeys :
           \E r \in {addEdgeIfNew(Graph, from, to, Fresh, k)} : Becomes(r.G)

RemoveEdge ==
    \E given \in EdgeArgs :
        /\ given.kind = "object" => given.v <= Len(heap)
        /\ \E r \in {removeEdge(Graph, given)} : Becomes(r.G)

AddEdges ==
    /\ Len(edges) < MaxEdges
    /\ \E from \in EdgeEnds, to_all \in ToLists, k \in EdgeKeys :
           \E r \in {addEdges(Graph, from, to_all, Fresh, k)} : Becomes(r.G)

AddEdgesIfNew ==
    /\ Len(edges) < MaxEdges
    /\ \E from \in EdgeEnds, to_all \in ToLists, data \in EdgeData, k \in EdgeKeys :
           \E r \in {addEdgesIfNew(Graph, from, to_all, data, k)} : Becomes(r.G)

Next ==
    \/ AddNode
    \/ AddNodeIfNew
    \/ AddEdge
    \/ AddEdgeIfNew
    \/ RemoveEdge
    \/ AddEdges
    \/ AddEdgesIfNew

Spec == Init /\ [][Next]_vars

\* ------------------------------------------------------------------ claims
\* Every claim is stated of every call the bounded argument sets allow, made
\* in every reachable store.

EdgeIds(G) == 0 .. Len(G.edges) - 1

\* edge id e was issued to an edge, and that edge has not been removed
Live(G, e) ==
    /\ e \in EdgeIds(G)
    /\ G.issued[e + 1] # NoEdge
    /\ G.edges[e + 1] # Undefined

\* the ids issued to edges from a to b under key k
Registered(G, a, b, k) ==
    {e \in EdgeIds(G) : G.issued[e + 1] = [from |-> a, to |-> b, key |-> k]}

\* the reference ref denotes an existing node
Denotes(G, ref) ==
    \/ ref.kind = "number" /\ HasNode(G, ref.v)
    \/ ref.kind = "string" /\ ref.v \in DOMAIN G.index
    \/ ref.kind = "object" /\ ref.v # Undefined /\ HasNode(G, ref.v)

\* C1: idempotent key insertion: for any non-empty key k, two calls
\* addNodeIfNew(d1, k), addNodeIfNew(d2, k) of which the first returns: the
\* second returns the same node id, the two create at most one node, and the
\* node's occurrence count after the second call is one more than after the
\* first.
C1_IdempotentKeyInsertion ==
    \A k \in Keys, d1 \in DataKinds, d2 \in DataKinds :
        LET r1 == addNodeIfNew(Graph, d1, k)
            r2 == addNodeIfNew(r1.G, d2, k)
        IN  r1.ok =>
                /\ r2.ok
                /\ r2.ret = r1.ret
                /\ Len(r2.G.nodes) <= Len(nodes) + 1
                /\ NodeAt(r2.G, r2.ret).occur = NodeAt(r1.G, r1.ret).occur + 1

\* a key has been inserted a second time: its node counts two occurrences
C1_Witness ==
    \E k \in Keys :
        /\ k \in DOMAIN index
        /\ NodeAt(Graph, index[k]).occur >= 2
        /\ addNodeIfNew(Graph, "object", k).ret = index[k]

\* C2: addNode(data, k) with a registered key k fails and leaves the store
\* unchanged (no node added), and no two nodes ever carry the same key.
C2_DuplicateKeyLeavesStoreUnchanged ==
    /\ \A k \in Keys :
           k \in DOMAIN index =>
               LET r == addNode(Graph, "object", k)
               IN  ~r.ok /\ r.G = Graph
    /\ \A i \in 1 .. Len(nodes), j \in 1 .. Len(nodes) :
           (i # j /\ nodes[i].index # NoKey) => nodes[i].index # nodes[j].index

\* C3: edge dedup scoping: addEdgeIfNew(a, b, data, k) called twice returns
\* the same edge id and creates one edge at most; addEdgeIfNew(a, b', data, k)
\* with another destination b' returns another edge id, that of a new edge
\* unless an edge from a to b' was registered under k before.
C3_EdgeDedupScoping ==
    \A a \in NodeRefs, b \in NodeRefs, k \in EdgeKeys \ {NoKey} :
        LET r1 == addEdgeIfNew(Graph, a, b, Fresh, k)
            r2 == addEdgeIfNew(r1.G, a, b, Fresh, k)
        IN  r1.ok =>
                /\ r2.ok
                /\ r2.ret = r1.ret
                /\ r2.G = r1.G
                /\ Len(r2.G.edges) <= Len(edges) + 1
                /\ \A b2 \in [kind : {"number"}, v : 0 .. MaxNodes - 1] :
                       LET r3 == addEdgeIfNew(r2.G, a, b2, Fresh, k)
                       IN  (r3.ok /\ b2.v # Resolve(Graph, b)) =>
                               /\ r3.ret # r1.ret
                               /\ Registered(r2.G, Resolve(Graph, a), b2.v, k) = {}
                                      => /\ r3.ret = Len(r2.G.edges)
                                         /\ Len(r3.G.edges) = Len(r2.G.edges) + 1

\* one node has edges to two destinations under one key, and what
\* addEdgeIfNew returns for each destination is that destination's edge
C3_Witness ==
    \E e1 \in EdgeIds(Graph), e2 \in EdgeIds(Graph) :
        /\ Live(Graph, e1) /\ Live(Graph, e2)
        /\ issued[e1 + 1].key # NoKey
        /\ issued[e1 + 1].key = issued[e2 + 1].key
        /\ issued[e1 + 1].from = issued[e2 + 1].from
        /\ issued[e1 + 1].to # issued[e2 + 1].to
        /\ addEdgeIfNew(Graph, [kind |-> "number", v |-> issued[e1 + 1].from],
                        [kind |-> "number", v |-> issued[e1 + 1].to], Fresh,
                        issued[e1 + 1].key).ret = e1
        /\ addEdgeIfNew(Graph, [kind |-> "number", v |-> issued[e2 + 1].from],
                        [kind |-> "number", v |-> issued[e2 + 1].to], Fresh,
                        issued[e2 + 1].key).ret = e2

\* C4: addEdge(a, b, data, k) fails and creates no edge whenever a live edge
\* from a to b registered under key k exists, whatever that edge's id.
C4_AddEdgeRejectsDuplicateIndex ==
    \A a \in NodeRefs, b \in NodeRefs, k \in EdgeKeys \ {NoKey} :
        (\E e \in Registered(Graph, Resolve(Graph, a), Resolve(Graph, b), k) :
             Live(Graph, e))
        => LET r == addEdge(Graph, a, b, Fresh, k)
           IN  ~r.ok /\ Len(r.G.edges) = Len(edges)

Missing(G, given) ==
    IF given.kind = "number"
    THEN \/ given.v \notin EdgeIds(G)
         \/ G.issued[given.v + 1] = NoEdge
         \/ G.edges[given.v + 1] = Undefined
    ELSE \/ given.v = Fresh
         \/ G.heap[given.v] = NoSym
         \/ G.edges[G.heap[given.v].id + 1] = Undefined

\* C6: removeEdge fails when the referenced edge never existed or has been
\* removed, given as an id or as the edge object, and the failing call
\* changes nothing.
C6_RemoveEdgeFailsOnMissingEdge ==
    \A given \in [kind : {"number", "object"}, v : 0 .. MaxEdges + 1] :
        (given.kind = "object" => given.v <= Len(heap)) =>
            (Missing(Graph, given) =>
                LET r == removeEdge(Graph, given)
                IN  ~r.ok /\ r.G = Graph)

\* an edge has been removed, and it is refused by id and as an object
C6_Witness ==
    \E e \in EdgeIds(Graph), o \in 1 .. Len(heap) :
        /\ issued[e + 1] # NoEdge
        /\ edges[e + 1] = Undefined
        /\ heap[o].id = e
        /\ ~removeEdge(Graph, [kind |-> "number", v |-> e]).ok
        /\ ~removeEdge(Graph, [kind |-> "object", v |-> o]).ok

\* edge id e stands in an adjacency list of some node
Listed(G, e) ==
    \E n \in 1 .. Len(G.nodes) :
        \/ \E m \in DOMAIN G.nodes[n].out :
               \E p \in 1 .. Len(G.nodes[n].out[m]) : G.nodes[n].out[m][p] = e
        \/ \E m \in DOMAIN G.nodes[n].in :
               \E p \in 1 .. Len(G.nodes[n].in[m]) : G.nodes[n].in[m][p] = e

\* every adjacency list of H has the length it has in G, and holds edge id e
\* wherever G's holds it
SamePlaces(G, H, e) ==
    \A n \in 1 .. Len(G.nodes) :
        /\ DOMAIN H.nodes[n].out = DOMAIN G.nodes[n].out
        /\ DOMAIN H.nodes[n].in = DOMAIN G.nodes[n].in
        /\ \A m \in DOMAIN G.nodes[n].out :
               /\ Len(H.nodes[n].out[m]) = Len(G.nodes[n].out[m])
               /\ \A p \in 1 .. Len(G.nodes[n].out[m]) :
                      G.nodes[n].out[m][p] = e => H.nodes[n].out[m][p] = e
        /\ \A m \in DOMAIN G.nodes[n].in :
               /\ Len(H.nodes[n].in[m]) = Len(G.nodes[n].in[m])
               /\ \A p \in 1 .. Len(G.nodes[n].in[m]) :
                      G.nodes[n].in[m][p] = e => H.nodes[n].in[m][p] = e

\* edge id e is among the edges the adjacency views of its two endpoints show
\* (_getEdgeNodes: the ids of the list that are not undefined)
InViews(G, e) ==
    LET ed == G.issued[e + 1]
    IN  /\ ed.to \in DOMAIN NodeAt(G, ed.from).out
        /\ \E p \in 1 .. Len(NodeAt(G, ed.from).out[ed.to]) :
               NodeAt(G, ed.from).out[ed.to][p] = e
        /\ ed.from \in DOMAIN NodeAt(G, ed.to).in
        /\ \E p \in 1 .. Len(NodeAt(G, ed.to).in[ed.from]) :
               NodeAt(G, ed.to).in[ed.from][p] = e

\* C7: tombstone stability: removeEdge(e) of a live edge e succeeds; after
\* it e stands in no adjacency list, and every other live edge keeps its id
\* and its place in the adjacency lists (nothing is shifted), is still shown
\* by the views of its endpoints, and can still be removed by its id.
C7_TombstoneStability ==
    \A e \in EdgeIds(Graph) :
        Live(Graph, e) =>
            LET r == removeEdge(Graph, [kind |-> "number", v |-> e])
            IN  /\ r.ok
                /\ ~Listed(r.G, e)
                /\ \A e2 \in EdgeIds(Graph) \ {e} :
                       Live(Graph, e2) =>
                           /\ Live(r.G, e2)
                           /\ r.G.edges[e2 + 1] = edges[e2 + 1]
                           /\ SamePlaces(Graph, r.G, e2)
                           /\ InViews(r.G, e2)
                           /\ removeEdge(r.G, [kind |-> "number", v |-> e2]).ok

\* C8: node ids are exactly 0..n-1 in creation order; the edge array keeps a
\* slot for every edge id ever issued, so that each new edge gets an id
\* greater than every id issued before; no call renumbers a node or gives an
\* issued edge id to another edge, also after removals.
C8_IdsDenseMonotonicNeverReused ==
    /\ \A i \in 1 .. Len(nodes) : nodes[i].id = i - 1
    /\ Len(edges) = Len(issued)
    /\ \A d \in DataKinds, k \in OptKeys :
           \A r \in {addNode(Graph, d, k), addNodeIfNew(Graph, d, k)} :
               /\ \A i \in 1 .. Len(nodes) : r.G.nodes[i].id = nodes[i].id
               /\ Len(r.G.nodes) \in {Len(nodes), Len(nodes) + 1}
               /\ (r.ok /\ Len(r.G.nodes) > Len(nodes)) => r.ret = Len(nodes)
    /\ \A a \in NodeRefs, b \in NodeRefs, k \in EdgeKeys :
           \A r \in {addEdge(Graph, a, b, Fresh, k), addEdgeIfNew(Graph, a, b, Fresh, k)} :
               /\ \A e \in EdgeIds(Graph) :
                      /\ r.G.issued[e + 1] = issued[e + 1]
                      /\ r.G.edges[e + 1] = edges[e + 1]
               /\ (r.ok /\ Len(r.G.edges) > Len(edges)) =>
                      /\ \A e \in 0 .. Len(issued) - 1 : r.ret > e
                      /\ r.G.issued[r.ret + 1] =
                             [from |-> Resolve(Graph, a), to |-> Resolve(Graph, b),
                              key |-> k]
    /\ \A given \in EdgeArgs :
           (given.kind = "object" => given.v <= Len(heap)) =>
               LET r == removeEdge(Graph, given)
               IN  /\ Len(r.G.edges) = Len(edges)
                   /\ \A e \in EdgeIds(Graph) :
                          r.G.edges[e + 1] \in {edges[e + 1], Undefined}

\* the most recently created edge has been removed, and the next edge gets
\* the next id, not the removed one's
C8_Witness ==
    /\ Len(edges) >= 2
    /\ issued[Len(edges)] # NoEdge
    /\ edges[Len(edges)] = Undefined
    /\ addEdge(Graph, [kind |-> "number", v |-> 0], [kind |-> "number", v |-> 0],
               Fresh, NoKey).ret = Len(edges)

\* what a batch call that returned r made of its destinations to_all: every
\* created edge has a data record of its own that holds its own id, source and
\* destination; the created edges are pairwise distinct, and removing one
\* leaves the others in place
BatchOwnData(r, from, to_all) ==
    LET created == {i \in 1 .. Len(to_all) : r.ret[i] >= Len(edges)}
        sym(i)  == r.G.heap[r.G.edges[r.ret[i] + 1]]
    IN  r.ok =>
            /\ \A i \in created :
                   /\ sym(i).id = r.ret[i]
                   /\ sym(i).from = Resolve(Graph, from)
                   /\ sym(i).to = Resolve(Graph, to_all[i])
            /\ \A i \in created, j \in created :
                   i # j =>
                       /\ r.ret[i] # r.ret[j]
                       /\ r.G.edges[r.ret[i] + 1] # r.G.edges[r.ret[j] + 1]
                       /\ LET rr == removeEdge(r.G, [kind |-> "number", v |-> r.ret[i]])
                          IN  /\ rr.ok
                              /\ rr.G.edges[r.ret[i] + 1] = Undefined
                              /\ rr.G.edges[r.ret[j] + 1] # Undefined

\* C9: addEdges and addEdgesIfNew called with one data record and several
\* destinations: every created edge has a data record of its own with its own
\* identity; the edges are pairwise distinct, each has its own destination,
\* and removing one leaves the others in place.
C9_BatchEdgesOwnData ==
    \A from \in NodeRefs, to_all \in ToLists, k \in EdgeKeys :
        to_all[1] # to_all[2] =>
            /\ BatchOwnData(addEdges(Graph, from, to_all, Fresh, k), from, to_all)
            /\ BatchOwnData(addEdgesIfNew(Graph, from, to_all, Fresh, k), from, to_all)

\* C10: nodeLookup fails, and get returns null, for every reference that
\* denotes no existing node; get returns an existing node or null.
C10_LookupDetectsEveryBadReference ==
    \A ref \in NodeRefs :
        /\ ~Denotes(Graph, ref) =>
               /\ ~nodeLookup(Graph, ref).ok
               /\ get(Graph, ref) = "null"
        /\ get(Graph, ref) \in {"node", "null"}

\* ------------------------------------------------------- adjacency views
\* _getEdgeNodes: for every neighbour in node_ids (the out or in map of a
\* node), the data objects of the edge ids of its list that are not undefined
getEdgeNodes(G, node_ids) ==
    [m \in DOMAIN node_ids |->
        LET eids == SelectSeq(node_ids[m], LAMBDA eid : eid # Undefined)
        IN  [i \in 1 .. Len(eids) |-> G.edges[eids[i] + 1]]]

\* the views that sit too long: computed once, in the store G0 where the
\* view object was obtained
lazyNodeEdges_Cached(G0, G, node) ==
    [out |-> getEdgeNodes(G0, NodeAt(G0, node).out),
     in  |-> getEdgeNodes(G0, NodeAt(G0, node).in)]

\* _lazyNodeEdges: the object {get out, get in} obtained for node in store G0,
\* its two getters read in store G
lazyNodeEdges(G0, G, node) ==
    [out |-> getEdgeNodes(G, NodeAt(G, node).out),
     in  |-> getEdgeNodes(G, NodeAt(G, node).in)]

\* the live edges from a to b, in the order of their ids
RECURSIVE LiveBetween(_, _, _, _)
LiveBetween(G, a, b, e) ==
    IF e >= Len(G.edges) THEN <<>>
    ELSE (IF Live(G, e) /\ G.issued[e + 1].from = a /\ G.issued[e + 1].to = b
          THEN <<G.edges[e + 1]>> ELSE <<>>) \o LiveBetween(G, a, b, e + 1)

\* the views of node n read in G show the live edges of G, and no neighbour
\* is missing from them
ViewsCurrent(v, G, n) ==
    /\ \A m \in DOMAIN v.out : v.out[m] = LiveBetween(G, n, m, 0)
    /\ \A m \in DOMAIN v.in : v.in[m] = LiveBetween(G, m, n, 0)
    /\ \A m \in 0 .. Len(G.nodes) - 1 :
           /\ m \notin DOMAIN v.out => LiveBetween(G, n, m, 0) = <<>>
           /\ m \notin DOMAIN v.in => LiveBetween(G, m, n, 0) = <<>>

\* C11: adjacency views are never stale: each access of edges.out / edges.in
\* of a view object returns, for every neighbour, exactly the edges between
\* the two nodes that are live at the time of the access: at once, and after
\* an edge was added or removed since the view object was obtained.
C11_ViewsNeverStale ==
    \A n \in 0 .. Len(nodes) - 1 :
        /\ ViewsCurrent(lazyNodeEdges(Graph, Graph, n), Graph, n)
        /\ \A a \in 0 .. Len(nodes) - 1, b \in 0 .. Len(nodes) - 1 :
               LET r == addEdge(Graph, [kind |-> "number", v |-> a],
                                [kind |-> "number", v |-> b], Fresh, NoKey)
               IN  ViewsCurrent(lazyNodeEdges(Graph, r.G, n), r.G, n)
        /\ \A given \in EdgeArgs :
               (given.kind = "object" => given.v <= Len(heap)) =>
                   LET r == removeEdge(Graph, given)
                   IN  ViewsCurrent(lazyNodeEdges(Graph, r.G, n), r.G, n)

\* a node with two edges to one neighbour of which one has been removed: the
\* view shows the one that is left, and would show a third once it is added
C11_Witness ==
    \E n \in 0 .. Len(nodes) - 1, m \in 0 .. Len(nodes) - 1 :
        /\ m \in DOMAIN NodeAt(Graph, n).out
        /\ Len(NodeAt(Graph, n).out[m]) = 2
        /\ Len(lazyNodeEdges(Graph, Graph, n).out[m]) = 1
        /\ Len(lazyNodeEdges(Graph,
                   addEdge(Graph, [kind |-> "number", v |-> n],
                           [kind |-> "number", v |-> m], Fresh, NoKey).G,
                   n).out[m]) = 2

\* ================================================================= parser
\* SpecParser (src/src/Graph.js, 364-882).
\*
\* Text is a sequence of atoms: strings of which the lexer's patterns never
\* look inside.  The characters the patterns do look at are atoms of their
\* own: the space " ", "-", ",", "?", ":", "." and "%"; a parenthesized remark
\* is one atom.  A line is its indentation (the length of its leading
\* whitespace) and its atoms; a cell of a row is a sequence of lines.

Line(ws, atoms) == [ws |-> ws, atoms |-> atoms]

\* the value v under the name of Op's parameter
Bind(v, Op(_)) == Op(v)

RECURSIVE Join(_)
Join(atoms) == IF atoms = <<>> THEN "" ELSE Head(atoms) \o Join(Tail(atoms))

\* String.prototype.toLowerCase, atom by atom, for the atoms with capitals
LowerAtom(a) ==
    CASE a \in {"If", "IF", "iF"} -> "if"
      [] a \in {"Is", "IS", "iS"} -> "is"
      [] a \in {"Yes", "YES"} -> "yes"
      [] a \in {"No", "NO"} -> "no"
      [] a = "Red" -> "red"
      [] a = "Exclude" -> "exclude"
      [] a = "Surcharge" -> "surcharge"
      [] a = "Attach" -> "attach"
      [] a = "See" -> "see"
      [] OTHER -> a

toLowerCase(atoms) == [i \in 1 .. Len(atoms) |-> LowerAtom(atoms[i])]

\* \s* at either end of a text
RECURSIVE TrimLeft(_)
TrimLeft(atoms) ==
    IF atoms # <<>> /\ Head(atoms) = " " THEN TrimLeft(Tail(atoms)) ELSE atoms

RECURSIVE TrimRight(_)
TrimRight(atoms) ==
    IF atoms # <<>> /\ atoms[Len(atoms)] = " "
    THEN TrimRight(SubSeq(atoms, 1, Len(atoms) - 1)) ELSE atoms

\* an optional last atom
DropLast(atoms, a) ==
    IF atoms # <<>> /\ atoms[Len(atoms)] = a
    THEN SubSeq(atoms, 1, Len(atoms) - 1) ELSE atoms

\* replace( /  +/g, ' ' ): runs of spaces become one space
RECURSIVE Squeeze(_)
Squeeze(atoms) ==
    IF Len(atoms) < 2 THEN atoms
    ELSE IF atoms[1] = " " /\ atoms[2] = " " THEN Squeeze(Tail(atoms))
    ELSE <<Head(atoms)>> \o Squeeze(Tail(atoms))

\* the position of the first atom a, 0 when there is none
RECURSIVE IndexOf(_, _, _)
IndexOf(atoms, a, i) ==
    IF i > Len(atoms) THEN 0
    ELSE IF atoms[i] = a THEN i ELSE IndexOf(atoms, a, i + 1)

ParenAtoms == {"(explain)"}

\* _tok: the value is the type when no value is given
tok(type, value) ==
    [type |-> type, value |-> Squeeze(IF value = <<>> THEN <<type>> ELSE value)]

\* /[?:]$|.*?\?\s*\([^)]+\)$/
isQuestion(str) ==
    /\ str # <<>>
    /\ \/ str[Len(str)] \in {"?", ":"}
       \/ /\ str[Len(str)] \in ParenAtoms
          /\ LET before == TrimRight(SubSeq(str, 1, Len(str) - 1))
             IN  before # <<>> /\ before[Len(before)] = "?"

lexQuestion(str) == tok("question", str)

LexOk(toks)  == [ok |-> TRUE, toks |-> toks, err |-> ""]
LexErr(e)    == [ok |-> FALSE, toks |-> <<>>, err |-> e]

\* the 5+-digit class codes a class assertion may name
CodeAtoms == {"12345", "67890"}

\* _lexAssertClass and _parseClassChunk: the text after "class" or "class
\* code" is cut into chunks that each end in a class code; a chunk is the
\* description before the code, and the code
RECURSIVE classChunks(_, _)
classChunks(raw, desc) ==
    IF raw = <<>> THEN <<>>
    ELSE IF Head(raw) \in CodeAtoms
    THEN <<[desc |-> Join(TrimRight(TrimLeft(desc))), code |-> Head(raw)]>>
             \o classChunks(Tail(raw), <<>>)
    ELSE IF Head(raw) \in {",", ";", "or"} /\ desc = <<>>
    THEN classChunks(Tail(raw), <<>>)
    ELSE classChunks(Tail(raw), Append(desc, Head(raw)))

lexAssertClass(redirect) ==
    LET at == {i \in 1 .. Len(redirect) : redirect[i] = "class"}
        c  == IF at = {} THEN 0 ELSE CHOOSE i \in at : \A j \in at : j <= i
    IN  IF c = 0
        THEN LexErr("SyntaxError: Unrecognized class code assert expression")
        ELSE LET after == TrimLeft(SubSeq(redirect, c + 1, Len(redirect)))
                 raw   == DropLast(TrimLeft(IF after # <<>> /\ Head(after) = "code"
                                            THEN Tail(after) ELSE after), ".")
                 found == classChunks(raw, <<>>)
             IN  IF found = <<>>
                 THEN LexErr("TypeError: Cannot read property 'length' of null")
                 ELSE LexOk(<<[type |-> "assert-class", value |-> found]>>)

\* the action begins with the word w and a space (w matched without case)
StartsWith(action, w) ==
    Len(action) >= 2 /\ LowerAtom(action[1]) = w /\ action[2] = " "

\* _lexCond: the tokens of a conditional line, from its comparison and action
lexCond(cmp, action) ==
    LET t == <<tok("cond", cmp)>>
    IN  IF DropLast(action, ".") = <<"continue">> THEN LexOk(<<>>)
        ELSE IF DropLast(action, ".") = <<"eligible">> THEN LexOk(<<>>)
        ELSE IF DropLast(action, ".") = <<"not", " ", "eligible">>
        THEN LexOk(t \o <<tok("ineligible", <<>>)>>)
        ELSE IF isQuestion(action) THEN LexOk(t \o <<lexQuestion(action)>>)
        ELSE IF Len(action) >= 3 /\ LowerAtom(action[1]) \in {"attach", "attached"}
                /\ action[2] = " "
        THEN LexOk(t \o <<tok("attach-form",
                              DropLast(IF Len(action) >= 4 /\ action[3] = "form"
                                          /\ action[4] = " "
                                       THEN SubSeq(action, 5, Len(action))
                                       ELSE SubSeq(action, 3, Len(action)), "."))>>)
        ELSE IF StartsWith(action, "exclude")
        THEN LexOk(t \o <<tok("exclude", action)>>)
        ELSE IF StartsWith(action, "surcharge")
        THEN LexOk(t \o <<tok("surcharge", action)>>)
        ELSE IF action # <<>> /\ LowerAtom(action[1]) \in {"add", "redirect and change"}
        THEN Bind(lexAssertClass(TrimLeft(Tail(action))),
                  LAMBDA a : IF a.ok THEN LexOk(t \o a.toks) ELSE a)
        ELSE IF StartsWith(action, "see") \/ StartsWith(action, "require the user")
        THEN LexOk(t \o <<tok("doc", action)>>)
        ELSE LexErr("SyntaxError: Unexpected conditional action")

\* _makeTokens: the tokens of one line (its atoms, without the indentation
\* and without trailing whitespace)
makeTokens(line) ==
    IF line = <<>> THEN LexOk(<<>>)
    ELSE IF line[1] = "-"
    THEN LexOk(<<tok("question-cont",
                     DropLast(TrimRight(TrimLeft(Tail(line))), "?"))>>)
    ELSE LET comma == IndexOf(line, ",", 1)
         IN  IF Len(line) >= 3 /\ LowerAtom(line[1]) \in {"if", "is"}
                /\ line[2] = " " /\ comma > 3
             THEN lexCond(SubSeq(line, 3, comma - 1),
                          TrimLeft(SubSeq(line, comma + 1, Len(line))))
             ELSE IF isQuestion(line) THEN LexOk(<<lexQuestion(line)>>)
             ELSE LexErr("SyntaxError: Unexpected expression")

\* _lex: the tokens of a matched line, with its depth
lex(line, depth) ==
    Bind(makeTokens(TrimRight(line.atoms)),
         LAMBDA r :
            IF ~r.ok THEN r
            ELSE LexOk([i \in 1 .. Len(r.toks) |->
                          [kind |-> "tok", type |-> r.toks[i].type,
                           value |-> r.toks[i].value, depth |-> depth]]))

\* ---------------------------------------------------------- rows and lines
\* the columns of a row
classcol == "Class Code"
cdesccol == "Class(es) of Business"
qcols    == <<"Question Set", "Question Set, continued",
              "Question Set, continued 2">>

\* A row is the set of the columns it has, its class code and description,
\* and its three question cells, each a sequence of lines (an empty cell has
\* no line).
Row(has, code, desc, cells) ==
    [has |-> has, code |-> code, desc |-> desc, cells |-> cells]

AllCols == {classcol, cdesccol, qcols[1], qcols[2], qcols[3]}

BlankLine == Line(0, <<>>)

\* str + row[ col ] + "\n": a cell's lines, and one blank line for a cell
\* that is empty
CellText(cell) == IF cell = <<>> THEN <<BlankLine>> ELSE cell

\* _concatQset: the class pair and the text of the three cells, as lines
concatQset(row, i) ==
    LET missing(col) ==
            [ok |-> FALSE, cc |-> [code |-> "", desc |-> ""], text |-> <<>>,
             err |-> "Error: Missing column '" \o col \o "' for row "
                         \o ToString(i + 1)]
    IN  IF classcol \notin row.has THEN missing(classcol)
        ELSE IF cdesccol \notin row.has THEN missing(cdesccol)
        ELSE IF qcols[1] \notin row.has THEN missing(qcols[1])
        ELSE IF qcols[2] \notin row.has THEN missing(qcols[2])
        ELSE IF qcols[3] \notin row.has THEN missing(qcols[3])
        ELSE [ok |-> TRUE, cc |-> [code |-> row.code, desc |-> row.desc],
              text |-> CellText(row.cells[1]) \o CellText(row.cells[2])
                           \o CellText(row.cells[3]),
              err |-> ""]

IsBlank(line) == TrimRight(line.atoms) = <<>>

\* the characters of a blank line, its newline included
RECURSIVE BlankChars(_, _)
BlankChars(text, n) ==
    IF n = 0 THEN 0
    ELSE text[n].ws + Len(text[n].atoms) + 1 + BlankChars(text, n - 1)

\* /^(\s*)([^\n]*?)\s*\n/, match after match.  The leading \s* takes the blank
\* lines before the first line of text together with its indentation, and the
\* trailing \s* takes the blank lines after a line; a text of blank lines only
\* is one match with an empty line.
linematches(text) ==
    LET first == IF \E k \in 1 .. Len(text) : ~IsBlank(text[k])
                 THEN CHOOSE k \in 1 .. Len(text) :
                          /\ ~IsBlank(text[k])
                          /\ \A j \in 1 .. k - 1 : IsBlank(text[j])
                 ELSE 0
        lead  == BlankChars(text, first - 1)
        rest  == SelectSeq(SubSeq(text, first + 1, Len(text)),
                           LAMBDA l : ~IsBlank(l))
    IN  IF first = 0 THEN <<BlankLine>>
        ELSE <<Line(text[first].ws + lead, text[first].atoms)>> \o rest

\* the elements of a token array: a token, the class pair, a nested array
Pair(cc)    == [kind |-> "pair", code |-> cc.code, desc |-> cc.desc]
List(items) == [kind |-> "list", items |-> items]

\* tok.type, tok.value and tok.depth of an element (undefined on an array)
typeOf(e)  == IF e.kind = "tok" THEN e.type ELSE "undefined"
valueOf(e) == IF e.kind = "tok" THEN e.value ELSE <<"undefined">>
depthOf(e) == IF e.kind = "tok" THEN e.depth ELSE Undefined

\* _parseQset: [ class_code, toks.concat( _parseQset( rest ) ) ], and [] for
\* the empty rest
RECURSIVE parseQset(_, _, _)
parseQset(cc, ms, i) ==
    IF i > Len(ms) THEN [ok |-> TRUE, qset |-> <<>>, err |-> ""]
    ELSE Bind(lex(ms[i], ms[i].ws),
              LAMBDA t :
                 IF ~t.ok THEN [ok |-> FALSE, qset |-> <<>>, err |-> t.err]
                 ELSE Bind(parseQset(cc, ms, i + 1),
                           LAMBDA r :
                              IF ~r.ok THEN r
                              ELSE [ok |-> TRUE,
                                    qset |-> <<Pair(cc), List(t.toks \o r.qset)>>,
                                    err |-> ""]))

\* ------------------------------------------------------- graph population
\* The graph the parser fills is the store with the data objects of its
\* nodes (ndata, in id order) and of its edges (edata, by heap reference).
NoClassIn == {}

\* a node's data object, as the parser makes it: key is the node's index key
\* in atoms, and the fields the evaluator adds are not yet there
NodeData(type, label, class, desc, value, key) ==
    [type |-> type, label |-> label, class |-> class, desc |-> desc,
     value |-> value, key |-> key, has_class_in |-> FALSE,
     class_in |-> NoClassIn, qtype |-> "undefined", qopts |-> {},
     qid |-> Undefined, group |-> "undefined"]

\* the data of no node: the argument of Carry for a call that adds no node
NoNode == NodeData("undefined", <<>>, "", "", <<>>, <<>>)

EdgeDataOf(type, cond, action, pred) ==
    [type |-> type, cond |-> cond, action |-> action, pred |-> pred]

\* the empty object of an edge that was added without data
NoData == EdgeDataOf("undefined", <<>>, "undefined", "undefined")

EmptyGraph ==
    [nodes |-> <<>>, edges |-> <<>>, index |-> EmptyMap, heap |-> <<>>,
     issued |-> <<>>, ndata |-> <<>>, edata |-> <<>>]

Num(id) == [kind |-> "number", v |-> id]
Str(k)  == [kind |-> "string", v |-> k]

\* the data objects of the nodes and edges a call has stored
Carry(r, node_data, edge_data) ==
    [r EXCEPT
        !.G.ndata = @ \o [i \in 1 .. Len(r.G.nodes) - Len(@) |-> node_data],
        !.G.edata = @ \o [i \in 1 .. Len(r.G.heap) - Len(@) |-> edge_data]]

\* _qlabel: the first lower-case letter that begins the text or follows one
\* of . ? ; is made a capital
UpperAtom(a) ==
    CASE a = "do" -> "Do"
      [] a = "which" -> "Which"
      [] a = "any trucks" -> "Any trucks"
      [] a = "why not" -> "Why not"
      [] a = "undefined" -> "Undefined"
      [] OTHER -> a

qlabel(label) ==
    LET s    == Squeeze(label)
        at(i) == /\ UpperAtom(s[i]) # s[i]
                 /\ \/ i = 1
                    \/ \E j \in 1 .. i - 1 :
                          /\ s[j] \in {".", "?", ";"}
                          /\ \A k \in j + 1 .. i - 1 : s[k] = " "
    IN  IF \E i \in 1 .. Len(s) : at(i)
        THEN LET i == CHOOSE i \in 1 .. Len(s) :
                          at(i) /\ \A j \in 1 .. i - 1 : ~at(j)
             IN  [s EXCEPT ![i] = UpperAtom(s[i])]
        ELSE s

\* _createClassNode: graph[ index ] is a property of the Graph object, which
\* has none by that name, so the class node is looked up or added and the
\* edge from the root is added every time
createClassNode(G, class_code, class_desc) ==
    Bind(Carry(addNodeIfNew(G, "object", "class$" \o class_code),
               NodeData("class", <<"Class", " ", class_code>>, class_code,
                        class_desc, <<>>, <<"class", "$", class_code>>),
               NoData),
         LAMBDA class_node :
            IF ~class_node.ok THEN class_node
            ELSE Bind(Carry(addEdge(class_node.G, Str("classes"),
                                    Num(class_node.ret), Fresh, NoKey),
                            NoNode,
                            EdgeDataOf("classroot", <<>>, "undefined", "undefined")),
                      LAMBDA e : IF ~e.ok THEN e
                                 ELSE Return(e.G, class_node.ret)))

\* the continuations of a question when a token at the question's own depth
\* is taken too
RECURSIVE contStrings_SameDepth(_, _)
contStrings_SameDepth(qtok, tokens) ==
    IF tokens = <<>> \/ typeOf(tokens[1]) # "question-cont"
       \/ depthOf(tokens[1]) < qtok.depth
    THEN [ok |-> TRUE, strs |-> <<>>, rest |-> tokens, err |-> ""]
    ELSE IF Tail(tokens) = <<>>
    THEN [ok |-> FALSE, strs |-> <<>>, rest |-> <<>>,
          err |-> "TypeError: Cannot read property 'value' of undefined"]
    ELSE Bind(contStrings_SameDepth(qtok, Tail(tokens)),
              LAMBDA r :
                 IF ~r.ok THEN r
                 ELSE [r EXCEPT !.strs =
                          <<qtok.value \o <<" ">> \o valueOf(tokens[2])>> \o @])

\* _reduceType over question-cont with the callback of _createQuestionSet:
\* the texts of the question set, and the tokens that are left
RECURSIVE contStrings(_, _)
contStrings(qtok, tokens) ==
    IF tokens = <<>> \/ typeOf(tokens[1]) # "question-cont"
       \/ depthOf(tokens[1]) <= qtok.depth
    THEN [ok |-> TRUE, strs |-> <<>>, rest |-> tokens, err |-> ""]
    ELSE IF Tail(tokens) = <<>>
    THEN [ok |-> FALSE, strs |-> <<>>, rest |-> <<>>,
          err |-> "TypeError: Cannot read property 'value' of undefined"]
    ELSE Bind(contStrings(qtok, Tail(tokens)),
              LAMBDA r :
                 IF ~r.ok THEN r
                 ELSE [r EXCEPT !.strs =
                          <<qtok.value \o <<" ">> \o valueOf(tokens[2])>> \o @])

\* qstr_set.map( qstr => graph.addNodeIfNew( ... ) )
RECURSIVE addQuestionNodes(_, _, _, _)
addQuestionNodes(G, strs, i, ids) ==
    IF i > Len(strs) THEN Return(G, ids)
    ELSE Bind(Carry(addNodeIfNew(G, "object", "q$" \o Join(strs[i])),
                    NodeData("question", qlabel(strs[i]), "", "", <<>>,
                             <<"q", "$">> \o strs[i]),
                    NoData),
              LAMBDA n :
                 IF ~n.ok THEN n
                 ELSE addQuestionNodes(n.G, strs, i + 1, Append(ids, n.ret)))

\* _createQuestionSet: the ids of the question nodes, and the tokens left
createQuestionSet(G, qtok, tokens) ==
    Bind(contStrings(qtok, tokens),
         LAMBDA c :
            IF ~c.ok THEN [G |-> G, ok |-> FALSE, ret |-> <<>>, err |-> c.err,
                           rest |-> c.rest]
            ELSE Bind(addQuestionNodes(
                          G, IF c.strs = <<>> THEN <<qtok.value>> ELSE c.strs,
                          1, <<>>),
                      LAMBDA n : [G |-> n.G, ok |-> n.ok, ret |-> n.ret,
                                  err |-> n.err, rest |-> c.rest]))

RECURSIVE createQuestions(_, _, _)
RECURSIVE attachConditions(_, _, _, _, _)
RECURSIVE createActions(_, _, _)

\* tok.value.map( c => _createClassNode( ... ) )
RECURSIVE assertClasses(_, _, _, _)
assertClasses(G, chunks, i, ids) ==
    IF i > Len(chunks) THEN Return(G, ids)
    ELSE Bind(createClassNode(G, chunks[i].code, chunks[i].desc),
              LAMBDA n :
                 IF ~n.ok THEN n
                 ELSE assertClasses(n.G, chunks, i + 1, Append(ids, n.ret)))

\* qset.forEach( q => graph.addEdges( q, actions, edge, index ) )
RECURSIVE condEdges(_, _, _, _, _, _)
condEdges(G, qset, i, actions, edge, indexed_by) ==
    IF i > Len(qset) THEN Return(G, qset)
    ELSE Bind(Carry(addEdges(G, Num(qset[i]),
                             [j \in 1 .. Len(actions) |-> Num(actions[j])],
                             Fresh, indexed_by),
                    NoNode, edge),
              LAMBDA e :
                 IF ~e.ok THEN e
                 ELSE condEdges(e.G, qset, i + 1, actions, edge, indexed_by))

\* _createQuestions: the tokens are [ [ class_code ], tokens ]
createQuestions(G, qtok, toks) ==
    IF toks = <<>> \/ toks[1].kind # "pair"
    THEN Throw(G, "TypeError: undefined is not iterable")
    ELSE IF Len(toks) < 2
    THEN Throw(G, "TypeError: Cannot read property '0' of undefined")
    ELSE Bind(createQuestionSet(G, qtok,
                                IF toks[2].kind = "list" THEN toks[2].items
                                ELSE <<>>),
              LAMBDA qset :
                 IF ~qset.ok THEN Throw(qset.G, qset.err)
                 ELSE attachConditions(qset.G, qtok.depth, qset.ret, qset.rest,
                                       toks[1].code))

\* _attachConditions: _reduceType over cond; tokens[1] is the condition and
\* tokens[2] the action that tokens.shift() takes
attachConditions(G, depth, qset, tokens, class_code) ==
    IF tokens = <<>> \/ typeOf(tokens[1]) # "cond"
       \/ depthOf(tokens[1]) <= depth
    THEN Return(G, qset)
    ELSE IF Tail(tokens) = <<>>
    THEN Throw(G, "TypeError: Cannot read property 'type' of undefined")
    ELSE Bind(createActions(G, tokens[2], Tail(Tail(tokens))),
              LAMBDA actions :
                 IF ~actions.ok THEN actions
                 ELSE Bind(condEdges(
                               actions.G, qset, 1, actions.ret,
                               EdgeDataOf(tokens[1].type, tokens[1].value,
                                          typeOf(tokens[2]),
                                          IF class_code = "" THEN "???"
                                          ELSE class_code),
                               "cond$" \o class_code \o "$" \o tokens[1].type
                                   \o "$" \o Join(tokens[1].value)),
                           LAMBDA e :
                              IF ~e.ok THEN e
                              ELSE attachConditions(e.G, depth, qset,
                                                    Tail(Tail(tokens)),
                                                    class_code)))

\* _createActions
createActions(G, action_tok, tokens) ==
    IF typeOf(action_tok) = "question"
    THEN createQuestions(G, action_tok, tokens)
    ELSE IF typeOf(action_tok) = "assert-class"
    THEN assertClasses(G, action_tok.value, 1, <<>>)
    ELSE Bind(Carry(addNodeIfNew(G, "object",
                                 typeOf(action_tok) \o "$"
                                     \o Join(valueOf(action_tok))),
                    NodeData(typeOf(action_tok), <<>>, "", "",
                             valueOf(action_tok),
                             <<typeOf(action_tok), "$">> \o valueOf(action_tok)),
                    NoData),
              LAMBDA n : IF ~n.ok THEN n ELSE Return(n.G, <<n.ret>>))

\* _rowToGraph without the edges from the class to the row's questions
rowToGraph_NoClassEdges(G, qset) ==
    IF qset[2].items = <<>> THEN Return(G, <<>>)
    ELSE IF typeOf(qset[2].items[1]) # "question"
    THEN Throw(G, "SyntaxError: Expected top-level question, but received "
                      \o typeOf(qset[2].items[1]))
    ELSE Bind(createClassNode(G, qset[1].code, qset[1].desc),
              LAMBDA class_node :
                 IF ~class_node.ok THEN class_node
                 ELSE createQuestions(class_node.G, qset[2].items[1],
                                      Tail(qset[2].items)))

\* _rowToGraph
rowToGraph(G, qset) ==
    IF qset[2].items = <<>> THEN Return(G, <<>>)
    ELSE IF typeOf(qset[2].items[1]) # "question"
    THEN Throw(G, "SyntaxError: Expected top-level question, but received "
                      \o typeOf(qset[2].items[1]))
    ELSE Bind(createClassNode(G, qset[1].code, qset[1].desc),
              LAMBDA class_node :
                 IF ~class_node.ok THEN class_node
                 ELSE Bind(createQuestions(class_node.G, qset[2].items[1],
                                           Tail(qset[2].items)),
                           LAMBDA qs :
                              IF ~qs.ok THEN qs
                              ELSE Carry(addEdges(qs.G, Num(class_node.ret),
                                                  [j \in 1 .. Len(qs.ret) |->
                                                      Num(qs.ret[j])],
                                                  Undefined, NoKey),
                                         NoNode, NoData)))

\* row_toks.forEach( tokens => _rowToGraph( graph, tokens ) )
RECURSIVE rowsToGraph(_, _, _)
rowsToGraph(G, row_toks, i) ==
    IF i > Len(row_toks) THEN Return(G, Undefined)
    ELSE Bind(rowToGraph(G, row_toks[i]),
              LAMBDA r : IF ~r.ok THEN r ELSE rowsToGraph(r.G, row_toks, i + 1))

\* _populateGraph
populateGraph(G, row_toks) ==
    Bind(Carry(addNode(G, "object", "classes"),
               NodeData("classes", <<>>, "", "", <<>>, <<"classes">>),
               NoData),
         LAMBDA root : IF ~root.ok THEN root
                       ELSE rowsToGraph(root.G, row_toks, 1))

\* a 'json' handler that puts the row's tokens before those of earlier rows
onJson_Unshift(p, row, i) ==
    Bind(concatQset(row, i),
         LAMBDA c :
            IF ~c.ok THEN [ok |-> FALSE, tokens |-> p.tokens, err |-> c.err]
            ELSE Bind(parseQset(c.cc, linematches(c.text), 1),
                      LAMBDA q :
                         IF ~q.ok
                         THEN [ok |-> FALSE, tokens |-> p.tokens, err |-> q.err]
                         ELSE [ok |-> TRUE, tokens |-> <<q.qset>> \o p.tokens,
                               err |-> ""]))

\* the parser's handler of the 'json' event: the row's tokens are pushed
onJson(p, row, i) ==
    Bind(concatQset(row, i),
         LAMBDA c :
            IF ~c.ok THEN [ok |-> FALSE, tokens |-> p.tokens, err |-> c.err]
            ELSE Bind(parseQset(c.cc, linematches(c.text), 1),
                      LAMBDA q :
                         IF ~q.ok
                         THEN [ok |-> FALSE, tokens |-> p.tokens, err |-> q.err]
                         ELSE [ok |-> TRUE, tokens |-> Append(p.tokens, q.qset),
                               err |-> ""]))

\* ============================================================== evaluator
\* SpecEvaluator (src/src/SpecEvaluator.js, 13-279).

\* the atoms that match [a-z-]+
LowerWords ==
    {"q", "class", "classes", "cond", "surcharge", "exclude", "doc",
     "ineligible", "attach-form", "undefined"}

\* _stripLabelPrefix: replace( /^([a-z-]+\$)+/, '' )
RECURSIVE stripLabelPrefix(_)
stripLabelPrefix(label) ==
    IF Len(label) >= 2 /\ label[1] \in LowerWords /\ label[2] = "$"
    THEN stripLabelPrefix(SubSeq(label, 3, Len(label)))
    ELSE label

\* _ensureLabel
ensureLabel(G, id) ==
    Return([G EXCEPT !.ndata[id + 1].label =
               IF @ # <<>> THEN @ ELSE stripLabelPrefix(G.ndata[id + 1].key)],
           id)

\* Object.keys of an adjacency map: the integer keys, ascending
RECURSIVE SortedSeq(_)
SortedSeq(S) ==
    IF S = {} THEN <<>>
    ELSE LET m == CHOOSE x \in S : \A y \in S : x <= y
         IN  <<m>> \o SortedSeq(S \ {m})

\* propagation that takes the class inputs a parent already carries and
\* never calculates a parent's
calcClassIns_NoRecursion(G, id, stack) ==
    LET in       == SortedSeq(DOMAIN NodeAt(G, id).in)
        class_in == {G.ndata[in[i] + 1].class :
                        i \in {j \in 1 .. Len(in) :
                                  G.ndata[in[j] + 1].type = "class"}}
        all_in   == class_in \cup
                    UNION {G.ndata[in[i] + 1].class_in :
                              i \in {j \in 1 .. Len(in) :
                                        G.ndata[in[j] + 1].type = "question"}}
    IN  Return([G EXCEPT !.ndata[id + 1].class_in = all_in,
                         !.ndata[id + 1].has_class_in = TRUE],
               id)

\* _calcClassIns.  stack is the set of the nodes whose calculation is under
\* way: a parent without class_in that is among them is calculated again and
\* again, and the recursion ends with the call stack exhausted.
RECURSIVE calcClassIns(_, _, _)
RECURSIVE parentClassIns(_, _, _, _, _)
parentClassIns(G, parents, i, class_in, stack) ==
    IF i > Len(parents) THEN Return(G, class_in)
    ELSE LET enode == parents[i]
             c == IF G.ndata[enode + 1].has_class_in THEN Return(G, enode)
                  ELSE IF enode \in stack
                  THEN Throw(G, "RangeError: Maximum call stack size exceeded")
                  ELSE calcClassIns(G, enode, stack)
         IN  IF ~c.ok THEN c
             ELSE parentClassIns(c.G, parents, i + 1,
                                 class_in \cup c.G.ndata[enode + 1].class_in,
                                 stack)

calcClassIns(G, id, stack) ==
    LET in       == SortedSeq(DOMAIN NodeAt(G, id).in)
        class_in == {G.ndata[in[i] + 1].class :
                        i \in {j \in 1 .. Len(in) :
                                  G.ndata[in[j] + 1].type = "class"}}
        all_in   == parentClassIns(
                        G, SelectSeq(in, LAMBDA e : G.ndata[e + 1].type = "question"),
                        1, class_in, stack \cup {id})
    IN  IF ~all_in.ok THEN all_in
        ELSE Return([all_in.G EXCEPT !.ndata[id + 1].class_in = all_in.ret,
                                     !.ndata[id + 1].has_class_in = TRUE],
                    id)

\* a collapsing that removes the outgoing edges of the node and adds nothing
collapseConds_DropEdges(G, id) ==
    Return([G EXCEPT !.edges =
                [e \in 1 .. Len(G.edges) |->
                    IF G.edges[e] # Undefined /\ G.heap[G.edges[e]].from = id
                    THEN Undefined ELSE G.edges[e]]], id)

\* _collapseConds: for the first neighbour of node.edges.out the callback
\* calls enode.edges.filter, and enode.edges is the object of the two getters
\* that _lazyNodeEdges returns (the array is enode.reledges); the statements
\* after that call (lines 135-159) are never reached
collapseConds(G, id) ==
    IF DOMAIN NodeAt(G, id).out = {} THEN Return(G, id)
    ELSE Throw(G, "TypeError: enode.edges.filter is not a function")

\* ------------------------------------------------ the collapsing of edges
\* The statements of the callback of _collapseConds from line 135 on, as a
\* function of the list conds.  The list is taken to be the cond edges of
\* the relation from the node to enode (reledges), which line 134 asks for
\* and, as the callback stands, fails to obtain.

\* reledges: the data objects of the edges of the relation that are not
\* undefined, in the order of the adjacency list
relEdges(G, n, t) ==
    Bind(SelectSeq(NodeAt(G, n).out[t], LAMBDA eid : eid # Undefined),
         LAMBDA live : [i \in 1 .. Len(live) |-> G.edges[live[i] + 1]])

\* filter( edge => edge.type === 'cond' )
condsOf(G, n, t) ==
    SelectSeq(relEdges(G, n, t), LAMBDA d : G.edata[d].type = "cond")

\* Object.keys( class_remain ): the actions of conds, each once, in the order
\* of their first edge
RECURSIVE actionsOf(_, _, _, _)
actionsOf(G, conds, i, seen) ==
    IF i > Len(conds) THEN seen
    ELSE actionsOf(G, conds, i + 1,
                   IF \E k \in 1 .. Len(seen) : seen[k] = G.edata[conds[i]].action
                   THEN seen ELSE Append(seen, G.edata[conds[i]].action))

\* _countNonUndefined: the number of own keys (a key is never undefined)
countNonUndefined(keys) == Cardinality(keys)

\* a count that is zero as soon as the action has an edge
calcClassRemainCounts_AnyEdge(G, conds, class_in, action) ==
    IF \E i \in 1 .. Len(conds) : G.edata[conds[i]].action = action THEN 0
    ELSE Cardinality(class_in)

\* _calcClassRemainCounts, for one action: the number of class inputs less
\* the number of preds that the action's edges mark
calcClassRemainCounts(G, conds, class_in, action) ==
    Cardinality(class_in)
        - countNonUndefined({G.edata[conds[i]].pred :
                                i \in {j \in 1 .. Len(conds) :
                                          G.edata[conds[j]].action = action}})

\* affected.forEach( edge => graph.removeEdge( edge ) )
RECURSIVE removeAffected(_, _, _)
removeAffected(G, affected, i) ==
    IF i > Len(affected) THEN Return(G, Undefined)
    ELSE Bind(removeEdge(G, [kind |-> "object", v |-> affected[i]]),
              LAMBDA r : IF ~r.ok THEN r
                         ELSE removeAffected(r.G, affected, i + 1))

\* _cloneEdge( conds[ 0 ] ) with pred undefined and the action
newEdge(G, conds, action) ==
    EdgeDataOf(G.edata[conds[1]].type, G.edata[conds[1]].cond, action,
               "undefined")

\* the callback of forEach( action => ... ): the action's edges are removed
\* and one edge without pred is added
collapseAction(G, n, t, conds, action) ==
    Bind(removeAffected(G, SelectSeq(conds, LAMBDA d : G.edata[d].action = action),
                        1),
         LAMBDA r :
            IF ~r.ok THEN r
            ELSE Carry(addEdge(r.G, Num(n), Num(t), Fresh, NoKey), NoNode,
                       newEdge(G, conds, action)))

\* the actions whose remaining count is zero, one after the other
RECURSIVE collapseActions(_, _, _, _, _, _)
collapseActions(G, n, t, conds, actions, i) ==
    IF i > Len(actions) THEN Return(G, n)
    ELSE IF calcClassRemainCounts(G, conds, G.ndata[n + 1].class_in,
                                  actions[i]) # 0
    THEN collapseActions(G, n, t, conds, actions, i + 1)
    ELSE Bind(collapseAction(G, n, t, conds, actions[i]),
              LAMBDA r : IF ~r.ok THEN r
                         ELSE collapseActions(r.G, n, t, conds, actions, i + 1))

\* node.edges.out.forEach( enode => ... ) from line 135 on: the neighbours
\* in the order of Object.keys, each with the cond edges it had when
\* node.edges.out was read
RECURSIVE collapseEdges(_, _, _, _, _)
collapseEdges(G0, G, n, ts, i) ==
    IF i > Len(ts) THEN Return(G, n)
    ELSE Bind(collapseActions(G, n, ts[i], condsOf(G0, n, ts[i]),
                              actionsOf(G0, condsOf(G0, n, ts[i]), 1, <<>>), 1),
              LAMBDA r : IF ~r.ok THEN r
                         ELSE collapseEdges(G0, r.G, n, ts, i + 1))

\* _calcClassIns and then the collapsing, on a question
collapseNode(G, id) ==
    IF G.ndata[id + 1].type # "question" THEN Return(G, id)
    ELSE Bind(calcClassIns(G, id, {}),
              LAMBDA c :
                 IF ~c.ok THEN c
                 ELSE collapseEdges(c.G, c.G, id,
                                    SortedSeq(DOMAIN NodeAt(c.G, id).out), 1))

\* the options of a list of condition labels: opts[ cond ] = cond for the
\* lower-cased labels
optsOf(conds) == {toLowerCase(conds[i]) : i \in 1 .. Len(conds)}

\* a type inference that tells yes and no from the other labels only
determineQtype_NoPercent(opts) ==
    LET n  == Cardinality(opts)
        yn == <<"yes">> \in opts /\ <<"no">> \in opts
    IN  IF n = 0 THEN "text"
        ELSE IF yn /\ n = 2 THEN "noyes"
        ELSE IF n = 1 /\ (<<"yes">> \in opts \/ <<"no">> \in opts) THEN "noyes"
        ELSE "select"

\* _determineQtype
determineQtype(opts) ==
    LET n  == Cardinality(opts)
        yn == <<"yes">> \in opts /\ <<"no">> \in opts
        popts == {opt \in opts : opt # <<>> /\ opt[Len(opt)] = "%"}
    IN  IF n = 0 THEN "text"
        ELSE IF yn /\ n = 2 THEN "noyes"
        ELSE IF n = 1 /\ (<<"yes">> \in opts \/ <<"no">> \in opts) THEN "noyes"
        ELSE IF Cardinality(popts) = n THEN "percent"
        ELSE "select"

\* _evalQuestionConds: out.edges.filter fails as in _collapseConds; without
\* neighbours the list of conditions is empty
evalQuestionConds(G, id) ==
    IF DOMAIN NodeAt(G, id).out # {}
    THEN Throw(G, "TypeError: out.edges.filter is not a function")
    ELSE LET opts == optsOf(<<>>)
         IN  Return([G EXCEPT !.ndata[id + 1].qtype = determineQtype(opts),
                              !.ndata[id + 1].qopts = opts],
                    id)

\* sha256( label ).digest( 'hex' ).substr( 0, 5 ): a function of the label
\* into the 16^5 values of five hex digits (not one to one)
RECURSIVE AtomSum(_, _)
AtomSum(label, i) ==
    IF i > Len(label) THEN 0
    ELSE (i * (Len(label[i]) + 7) + 31 * AtomSum(label, i + 1)) % 1048576

digest5(label) == AtomSum(label, 1)

\* an id made of the label and of the node's place in the graph
idQuestion_ByNode(G, id) ==
    Return([G EXCEPT !.ndata[id + 1].qid =
               (digest5(G.ndata[id + 1].label) + id) % 1048576], id)

\* _idQuestion
idQuestion(G, id) ==
    Return([G EXCEPT !.ndata[id + 1].qid = digest5(G.ndata[id + 1].label)], id)

\* the passes of the callback that evaluate hands to mapNodes
Passes == <<"label", "class_in", "collapse", "qtype", "qid">>

PassNo(pass) == CHOOSE i \in 1 .. Len(Passes) : Passes[i] = pass

runPass(G, id, pass) ==
    CASE pass = "label"    -> ensureLabel(G, id)
      [] pass = "class_in" -> calcClassIns(G, id, {})
      [] pass = "collapse" -> collapseConds(G, id)
      [] pass = "qtype"    -> evalQuestionConds(G, id)
      [] pass = "qid"      -> idQuestion(G, id)

\* an order in which a pass is run on every node before the next pass starts
nextStep_PassMajor(G, id, pass) ==
    LET later == {n \in id + 1 .. Len(G.nodes) - 1 :
                     pass = "label" \/ G.ndata[n + 1].type = "question"}
        qs    == {n \in 0 .. Len(G.nodes) - 1 : G.ndata[n + 1].type = "question"}
    IN  IF later # {}
        THEN [node |-> CHOOSE n \in later : \A m \in later : n <= m, pass |-> pass]
        ELSE IF pass = "qid" \/ qs = {}
        THEN [node |-> Len(G.nodes), pass |-> "label"]
        ELSE [node |-> CHOOSE n \in qs : \A m \in qs : n <= m,
              pass |-> Passes[PassNo(pass) + 1]]

\* the position after a pass on a node: the callback runs _ensureLabel on
\* every node and, nested in one expression, the four other passes on a
\* question, and mapNodes goes on to the next node when the callback returns
nextStep(G, id, pass) ==
    IF G.ndata[id + 1].type = "question" /\ pass # "qid"
    THEN [node |-> id, pass |-> Passes[PassNo(pass) + 1]]
    ELSE [node |-> id + 1, pass |-> "label"]

\* evaluate: the callback on every node in the order of mapNodes, up to the
\* first error
RECURSIVE evaluateFrom(_, _, _)
evaluateFrom(G, id, pass) ==
    IF id >= Len(G.nodes) THEN Return(G, id)
    ELSE Bind(runPass(G, id, pass),
              LAMBDA r :
                 IF ~r.ok THEN r
                 ELSE Bind(nextStep(r.G, id, pass),
                           LAMBDA n : evaluateFrom(r.G, n.node, n.pass)))

\* ========================================================== XML generator
\* NodeXmlGenerator (src/src/NodeXmlGenerator.js, 27-533).  The text of an
\* XML node is kept as the atoms of its element name and of the id it
\* mentions.

\* the data object of an XML node
XmlData(label, group, key) ==
    [NodeData("xml", label, "", "", <<>>, key) EXCEPT !.group = group]

\* the data object of an edge to an XML node
XmlEdge == EdgeDataOf("xml", <<>>, "undefined", "undefined")

\* an attachment whose edge carries no type
attachXmlNode_Untyped(G, from, xml, group, indexed_by) ==
    IF xml = <<>> THEN Return(G, Undefined)
    ELSE Bind(Carry(addNodeIfNew(G, "object", indexed_by),
                    XmlData(xml, group, <<indexed_by>>), NoData),
              LAMBDA xml_node :
                 IF ~xml_node.ok THEN xml_node
                 ELSE Bind(Carry(addEdge(xml_node.G, Num(from),
                                         Num(xml_node.ret), Fresh, indexed_by),
                                 NoNode, NoData),
                           LAMBDA e : IF ~e.ok THEN e
                                      ELSE Return(e.G, xml_node.ret)))

\* _attachXmlNode
attachXmlNode(G, from, xml, group, indexed_by) ==
    IF xml = <<>> THEN Return(G, Undefined)
    ELSE Bind(Carry(addNodeIfNew(G, "object", indexed_by),
                    XmlData(xml, group, <<indexed_by>>), NoData),
              LAMBDA xml_node :
                 IF ~xml_node.ok THEN xml_node
                 ELSE Bind(Carry(addEdge(xml_node.G, Num(from),
                                         Num(xml_node.ret), Fresh, indexed_by),
                                 NoNode, XmlEdge),
                           LAMBDA e : IF ~e.ok THEN e
                                      ELSE Return(e.G, xml_node.ret)))

\* _genClassRootXml: the typedef of the class codes, attached to the root
genClassRootXml(G, id) ==
    Bind(attachXmlNode(G, id, <<"typedef", "classCode">>, "typedefs",
                       "xml$class$typedef"),
         LAMBDA r : IF ~r.ok THEN r ELSE Return(r.G, id))

\* _qwhenId: 'qwhen-' + qid.replace( /_/g, '-' )
qwhenId(qid) == "qwhen-q-" \o ToString(qid)

\* node.edges.in.filter( enode => enode.type === type )
InNodesOfType(G, id, type) ==
    {m \in DOMAIN NodeAt(G, id).in : G.ndata[m + 1].type = type}

\* _genWhenPreds: the classification of the question's class predicates is
\* looked up or added
genWhenPreds(G, id) ==
    IF G.ndata[id + 1].qid = Undefined
    THEN Throw(G, "TypeError: Cannot read property 'replace' of undefined")
    ELSE Carry(addNodeIfNew(G, "object",
                            "xml$c$" \o qwhenId(G.ndata[id + 1].qid)),
               XmlData(<<"classify", qwhenId(G.ndata[id + 1].qid)>>, "classes",
                       <<"xml$c$" \o qwhenId(G.ndata[id + 1].qid)>>),
               NoData)

\* _genWhenParent: a question with more than one parent question gets a
\* classification of its own (_genMultiParentWhen)
genWhenParent(G, id) ==
    IF Cardinality(InNodesOfType(G, id, "question")) <= 1 THEN Return(G, id)
    ELSE attachXmlNode(G, id,
                       <<"classify", "qwhen-multi-q-"
                                         \o ToString(G.ndata[id + 1].qid)>>,
                       "classes",
                       "xml$when$qwhen-multi-q-"
                           \o ToString(G.ndata[id + 1].qid))

\* _genQuestionXml: _genWhen adds the classifications, and _genTail calls
\* _genAsserts, whose first statement calls graph.getEdgesOfType; class
\* Graph has no method of that name, so the statements after _genTail are not
\* reached
genQuestionXml(G, id) ==
    Bind(genWhenPreds(G, id),
         LAMBDA cnode :
            IF ~cnode.ok THEN cnode
            ELSE Bind(genWhenParent(cnode.G, id),
                      LAMBDA w :
                         IF ~w.ok THEN w
                         ELSE Throw(w.G, "TypeError: graph.getEdgesOfType is not a function")))

\* _genEligXml and _genFormXml: the first statement calls
\* graph.getEdgesOfType
genEligXml(G, id) ==
    Throw(G, "TypeError: graph.getEdgesOfType is not a function")

genFormXml(G, id) ==
    Throw(G, "TypeError: graph.getEdgesOfType is not a function")

\* the callback that generateXml hands to mapNodes
genNodeXml(G, id) ==
    CASE G.ndata[id + 1].type = "classes"     -> genClassRootXml(G, id)
      [] G.ndata[id + 1].type = "question"    -> genQuestionXml(G, id)
      [] G.ndata[id + 1].type = "ineligible"  -> genEligXml(G, id)
      [] G.ndata[id + 1].type = "attach-form" -> genFormXml(G, id)
      [] OTHER -> Return(G, id)

\* ============================================================== processes
\* compile (src/unnamed/part_000): parser.parse( rows, new Graph() )
\*     .then( graph => evaluator.evaluate( graph ) )           (Compile)
\*     .then( graph => xmlgen.generateXml( graph ) )           (CompileXml)

\* ------------------------------------------------------------------ bounds
MaxRows  == 3
MaxConds == 3

\* ------------------------------------------------------------------ inputs
QuestionX == <<"Do you operate in state X", "?">>

\* the lines of the rows
LineQ     == Line(0, QuestionX \o <<" ">>)
LineDashY == Line(0, <<"-", " ", "yes", ",", " ", "surcharge", " ", "heavy", ".">>)
LineDashN == Line(0, <<"-", " ", "no", ",", " ", "continue", ".">>)
LineIfY   == Line(2, <<"If", " ", "yes", ",", " ", "surcharge", " ", "heavy", ".">>)
LineIfN   == Line(2, <<"If", " ", "no", ",", " ", "continue", ".">>)
LineTop   == Line(0, <<"any trucks", "?">>)
LineSubY  == Line(2, <<"If", " ", "yes", ",", " ", "which", "?">>)
LineSubN  == Line(2, <<"is", " ", "no", ",", " ", "why not", ":">>)
LineSubX  == Line(4, <<"If", " ", "yes", ",", " ">> \o QuestionX)
LineEnd   == Line(6, <<"If", " ", "no", ",", " ", "continue", ".">>)
LineBad   == Line(0, <<"Heavy trucks only">>)
LineShrug == Line(2, <<"If", " ", "yes", ",", " ", "shrug">>)
LineIfNS  == Line(2, <<"If", " ", "no", ",", " ", "surcharge", " ", "heavy", ".">>)
LineSelf  == Line(2, <<"If", " ", "yes", ",", " ">> \o QuestionX)
LineIfNX  == Line(2, <<"If", " ", "no", ",", " ", "exclude", " ", "heavy", ".">>)
LineEnd4  == Line(4, <<"If", " ", "no", ",", " ", "continue", ".">>)

\* the row of the end-to-end scenario: the question and two lines that begin
\* with a dash, in one cell
ScenarioRow == Row(AllCols, "12345", "Trucking", <<<<LineQ, LineDashY, LineDashN>>, <<>>, <<>>>>)

\* the question with a conditional line for each answer, for a class
CondRow(code, desc) == Row(AllCols, code, desc, <<<<LineQ>>, <<LineIfY>>, <<LineIfN>>>>)

\* a question, one of two questions below it, and the question of the
\* scenario below that
ChainRow(sub) == Row(AllCols, "67890", "Hauling", <<<<LineTop>>, <<sub>>, <<LineSubX, LineEnd>>>>)

\* the question with two conditional lines that lead to an action
TwoCondRow == Row(AllCols, "12345", "Trucking", <<<<LineQ>>, <<LineIfY>>, <<LineIfNS>>>>)

\* the question with the conditional line of the other answer, for another
\* class
CondRowNo == Row(AllCols, "67890", "Hauling", <<<<LineQ>>, <<LineIfNS>>, <<>>>>)

\* the question below itself
SelfRow == Row(AllCols, "12345", "Trucking", <<<<LineQ>>, <<LineSelf>>, <<LineEnd4>>>>)

\* another question with a line that begins with a dash
TopRow == Row(AllCols, "67890", "Hauling", <<<<LineTop, LineDashN>>, <<>>, <<>>>>)

RowSet ==
    {ScenarioRow,
     TopRow,
     TwoCondRow,
     CondRowNo,
     SelfRow,
     CondRow("12345", "Trucking"),
     CondRow("67890", "Hauling"),
     ChainRow(LineSubY),
     ChainRow(LineSubN),
     Row(AllCols \ {qcols[2]}, "12345", "Trucking", <<<<LineQ>>, <<>>, <<LineIfY>>>>),
     Row(AllCols, "12345", "Trucking", <<<<LineBad>>, <<>>, <<>>>>),
     Row(AllCols, "12345", "Trucking", <<<<LineQ>>, <<LineShrug>>, <<>>>>)}

\* the condition labels of a type inference
Labels ==
    {<<"yes">>, <<"Yes">>, <<"no">>, <<"NO">>, <<"10", "%">>, <<"20", "%">>,
     <<"red">>, <<"Red">>}

CondLists == UNION {[1 .. n -> Labels] : n \in 0 .. MaxConds}

\* ------------------------------------------------------------------- state
\* the graph that parse was given, with the data objects
PGraph ==
    [nodes |-> nodes, edges |-> edges, index |-> index, heap |-> heap,
     issued |-> issued, ndata |-> ndata, edata |-> edata]

GraphBecomes(G) ==
    /\ nodes' = G.nodes
    /\ edges' = G.edges
    /\ index' = G.index
    /\ heap' = G.heap
    /\ issued' = G.issued
    /\ ndata' = G.ndata
    /\ edata' = G.edata

\* The row source delivers a row: the 'json' handler runs.  An error the
\* handler throws leaves the handler for the row source, which is not part of
\* the parser: it goes on, or it delivers nothing more.
Json ==
    /\ parser.source = "open"
    /\ Len(parser.rows) < MaxRows
    /\ \E row \in RowSet :
          LET r == onJson(parser, row, Len(parser.rows))
          IN  IF r.ok
              THEN parser' = [parser EXCEPT !.rows = Append(@, row),
                                            !.tokens = r.tokens]
              ELSE \E next \in {"open", "broken"} :
                      parser' = [parser EXCEPT !.rows = Append(@, row),
                                               !.uncaught = Append(@, r.err),
                                               !.source = next]
    /\ UNCHANGED <<nodes, edges, index, heap, issued, ndata, edata, evaluator,
                   xmlgen, infer>>

\* The row source signals the end of the data: the 'done' handler runs,
\* resolve( this._populateGraph( graph, tokens ) ).  An error that
\* _populateGraph throws leaves the handler before resolve is called.
Done ==
    /\ parser.source = "open"
    /\ LET r == populateGraph(PGraph, parser.tokens)
       IN  /\ GraphBecomes(r.G)
           /\ parser' = IF r.ok
                        THEN [parser EXCEPT !.source = "done",
                                            !.promise = "resolved"]
                        ELSE [parser EXCEPT !.source = "done",
                                            !.uncaught = Append(@, r.err)]
    /\ UNCHANGED <<evaluator, xmlgen, infer>>

\* .then( graph => evaluator.evaluate( graph ) ): evaluate is called with the
\* graph that parse resolved with
Evaluate ==
    /\ parser.promise = "resolved"
    /\ evaluator.promise = "none"
    /\ evaluator' = [evaluator EXCEPT !.promise = "pending"]
    /\ UNCHANGED <<nodes, edges, index, heap, issued, ndata, edata, parser,
                   xmlgen, infer>>

\* One pass of the callback on one node, in the order of mapNodes.  An error
\* is thrown inside the executor of the promise, which rejects it; after the
\* last node the executor resolves the promise.
Pass ==
    /\ evaluator.promise = "pending"
    /\ LET r == runPass(PGraph, evaluator.node, evaluator.pass)
           n == nextStep(r.G, evaluator.node, evaluator.pass)
       IN  /\ GraphBecomes(r.G)
           /\ evaluator' =
                 IF ~r.ok
                 THEN [evaluator EXCEPT !.promise = "rejected", !.reason = r.err]
                 ELSE [evaluator EXCEPT
                          !.steps = Append(@, <<evaluator.node, evaluator.pass>>),
                          !.node = n.node,
                          !.pass = n.pass,
                          !.promise = IF n.node >= Len(nodes) THEN "resolved"
                                      ELSE "pending"]
    /\ UNCHANGED <<parser, xmlgen, infer>>

\* .then( graph => xmlgen.generateXml( graph ) ): generateXml is called with
\* the graph that evaluate resolved with; mapNodes goes over the nodes that
\* the graph has at that time
GenerateXml ==
    /\ evaluator.promise = "resolved"
    /\ xmlgen.promise = "none"
    /\ xmlgen' = [xmlgen EXCEPT !.promise = IF nodes = <<>> THEN "resolved"
                                            ELSE "pending",
                                !.last = Len(nodes)]
    /\ UNCHANGED <<nodes, edges, index, heap, issued, ndata, edata, parser,
                   evaluator, infer>>

\* The callback of generateXml on one node.  An error is thrown inside the
\* executor of the promise, which rejects it; after the last node the
\* executor resolves the promise.
XmlNode ==
    /\ xmlgen.promise = "pending"
    /\ LET r == genNodeXml(PGraph, xmlgen.node)
       IN  /\ GraphBecomes(r.G)
           /\ xmlgen' =
                 IF ~r.ok
                 THEN [xmlgen EXCEPT !.promise = "rejected", !.reason = r.err]
                 ELSE [xmlgen EXCEPT
                          !.node = @ + 1,
                          !.promise = IF xmlgen.node + 1 >= xmlgen.last
                                      THEN "resolved" ELSE "pending"]
    /\ UNCHANGED <<parser, evaluator, infer>>

CompileNext ==
    \/ Json
    \/ Done
    \/ Evaluate
    \/ Pass

Compile == Init /\ [][CompileNext]_vars

\* compile with the generation of the XML nodes
CompileXmlNext ==
    \/ Json
    \/ Done
    \/ Evaluate
    \/ Pass
    \/ GenerateXml
    \/ XmlNode

CompileXml == Init /\ [][CompileXmlNext]_vars

\* ---------------------------------------------------------- type inference
\* _evalQuestionConds and _determineQtype on the condition labels of a
\* question's outgoing cond edges
InferInit ==
    /\ nodes = <<>>
    /\ edges = <<>>
    /\ index = EmptyMap
    /\ heap = <<>>
    /\ issued = <<>>
    /\ ndata = <<>>
    /\ edata = <<>>
    /\ parser = ParserStart
    /\ evaluator = EvaluatorStart
    /\ xmlgen = XmlgenStart
    /\ \E conds \in CondLists : infer = [InferStart EXCEPT !.conds = conds]

Options ==
    /\ infer.qtype = "undefined"
    /\ infer.opts = {}
    /\ infer.conds # <<>>
    /\ infer' = [infer EXCEPT !.opts = optsOf(infer.conds)]
    /\ UNCHANGED <<nodes, edges, index, heap, issued, ndata, edata, parser,
                   evaluator, xmlgen>>

Qtype ==
    /\ infer.qtype = "undefined"
    /\ infer.conds # <<>> => infer.opts # {}
    /\ infer' = [infer EXCEPT !.qtype = determineQtype(infer.opts)]
    /\ UNCHANGED <<nodes, edges, index, heap, issued, ndata, edata, parser,
                   evaluator, xmlgen>>

InferNext ==
    \/ Options
    \/ Qtype

Infer == InferInit /\ [][InferNext]_vars

\* the tokens of the rows whose 'json' handler returned, in the order of
\* their delivery
RECURSIVE TokensOf(_, _)
TokensOf(rows, i) ==
    IF i > Len(rows) THEN <<>>
    ELSE Bind(onJson(ParserStart, rows[i], i - 1),
              LAMBDA r : IF r.ok THEN <<r.tokens[1]>> ELSE <<>>)
             \o TokensOf(rows, i + 1)

\* ------------------------------------------------- collapsing of edges
\* _calcClassIns and the statements of _collapseConds from line 135 on, node
\* after node, on the graphs that parse resolves with

\* a class's question with a conditional line that leads to another action
ExclRow == Row(AllCols, "12345", "Trucking", <<<<LineQ>>, <<LineIfNX>>, <<>>>>)

CollapseRows ==
    {CondRow("12345", "Trucking"), CondRow("67890", "Hauling"), CondRowNo,
     ExclRow, ChainRow(LineSubY)}

CollapseInit ==
    /\ \E rows \in UNION {[1 .. n -> CollapseRows] : n \in 0 .. MaxRows} :
          LET r == populateGraph(EmptyGraph, TokensOf(rows, 1))
          IN  /\ r.ok
              /\ nodes = r.G.nodes
              /\ edges = r.G.edges
              /\ index = r.G.index
              /\ heap = r.G.heap
              /\ issued = r.G.issued
              /\ ndata = r.G.ndata
              /\ edata = r.G.edata
              /\ parser = [ParserStart EXCEPT !.rows = rows,
                                              !.promise = "resolved",
                                              !.source = "done"]
    /\ evaluator = [EvaluatorStart EXCEPT !.promise = "pending",
                                          !.pass = "collapse"]
    /\ xmlgen = XmlgenStart
    /\ infer = InferStart

CollapseNode ==
    /\ evaluator.promise = "pending"
    /\ LET r == collapseNode(PGraph, evaluator.node)
       IN  /\ GraphBecomes(r.G)
           /\ evaluator' =
                 IF ~r.ok
                 THEN [evaluator EXCEPT !.promise = "rejected", !.reason = r.err]
                 ELSE [evaluator EXCEPT
                          !.steps = Append(@, <<evaluator.node, "collapse">>),
                          !.node = @ + 1,
                          !.promise = IF evaluator.node + 1 >= Len(nodes)
                                      THEN "resolved" ELSE "pending"]
    /\ UNCHANGED <<parser, xmlgen, infer>>

CollapseNext == CollapseNode

Collapse == CollapseInit /\ [][CollapseNext]_vars

\* ------------------------------------------------- claims: parse, evaluate

\* C12: if a row lacks a required column, or a line or conditional action
\* cannot be parsed, or graph construction raises an error, then the promise
\* returned by parse is rejected and parse never resolves with a graph.
C12_ErrorRejectsParse ==
    parser.uncaught # <<>> => parser.promise = "rejected"

\* the graph holds what G holds
SameStore(G) ==
    /\ nodes = G.nodes
    /\ edges = G.edges
    /\ index = G.index
    /\ heap = G.heap
    /\ issued = G.issued

\* C13: parse completes only after the row source has signalled the end of
\* the data: until 'done' the promise is pending and the graph has no node
\* and no edge, and once the promise is resolved the graph holds the rows in
\* the order of their delivery.
C13_ParseCompletesAfterDone ==
    /\ parser.source # "done" =>
          /\ parser.promise = "pending"
          /\ nodes = <<>>
          /\ edges = <<>>
    /\ parser.promise = "resolved" =>
          SameStore(populateGraph(EmptyGraph, TokensOf(parser.rows, 1)).G)

C13_Witness ==
    /\ parser.promise = "resolved"
    /\ Len(parser.rows) >= 2
    /\ parser.rows[1] = CondRow("67890", "Hauling")
    /\ parser.rows[2] = ScenarioRow
    /\ NodeAt(PGraph, 1).index = "class$67890"
    /\ NodeAt(PGraph, 4).index = "class$12345"

\* the nodes of a type, and the question nodes
NodesOfType(type) == {n \in 0 .. Len(nodes) - 1 : ndata[n + 1].type = type}
Questions == NodesOfType("question")

\* the edges that are in the graph: their ends and their data objects
LiveEdges ==
    {[id |-> e - 1, from |-> heap[edges[e]].from, to |-> heap[edges[e]].to,
      data |-> edata[edges[e]]] :
        e \in {x \in 1 .. Len(edges) : edges[x] # Undefined}}

\* C14: for every graph that parse resolved with, evaluate resolves, and
\* afterwards every question node carries a class_in set, an inferred type
\* and a generated id.
C14_EvaluateResolves ==
    /\ evaluator.promise # "rejected"
    /\ evaluator.promise = "resolved" =>
          \A q \in Questions :
              /\ ndata[q + 1].has_class_in
              /\ ndata[q + 1].qtype # "undefined"
              /\ ndata[q + 1].qid # Undefined

\* the passes that have run, in the order in which they ran
StepsInOrder(Before(_, _)) ==
    \A i \in 1 .. Len(evaluator.steps), j \in 1 .. Len(evaluator.steps) :
        i < j => Before(evaluator.steps[i], evaluator.steps[j])

\* C15 as stated: a pass completes for every node before the next pass
\* starts on any node.
C15_PassAfterPass ==
    StepsInOrder(LAMBDA s, t : PassNo(s[2]) <= PassNo(t[2]))

\* C15: evaluate visits the nodes once, in id order, and the passes of a
\* node (label backfill and, on a question, propagation, collapsing, type
\* inference, id assignment, in this order) all complete on that node before
\* any pass starts on the next node.
C15_NodeAfterNode ==
    /\ StepsInOrder(LAMBDA s, t :
          s[1] < t[1] \/ (s[1] = t[1] /\ PassNo(s[2]) < PassNo(t[2])))
    /\ \A n \in 0 .. Len(nodes) - 1, k \in 1 .. Len(Passes) :
          (evaluator.promise = "resolved" \/ n < evaluator.node)
          /\ (k = 1 \/ n \in Questions)
          => \E i \in 1 .. Len(evaluator.steps) :
                 evaluator.steps[i] = <<n, Passes[k]>>

C15_Witness ==
    \E i \in 1 .. Len(evaluator.steps) - 1 :
        /\ evaluator.steps[i][2] = "qid"
        /\ evaluator.steps[i + 1] = <<evaluator.steps[i][1] + 1, "label">>

\* the parents of a node: the nodes with an entry in its map of incoming
\* edges
Parents(n, type) ==
    {p \in DOMAIN nodes[n + 1].in : ndata[p + 1].type = type}

\* a node and its question ancestors
RECURSIVE UpClosure(_)
UpClosure(S) ==
    LET T == S \cup UNION {Parents(n, "question") : n \in S}
    IN  IF T = S THEN S ELSE UpClosure(T)

\* C16: propagation union law: for every question Q that carries class_in,
\* class_in(Q) is the set of the class codes of the class nodes with an edge
\* into Q united with class_in(P) of every question P with an edge into Q;
\* it is the set of the classes with an edge into Q or into a question
\* ancestor of Q, whatever the order of the visits; and when evaluate has
\* completed every question carries class_in.
C16_PropagationUnionLaw ==
    /\ \A q \in Questions :
          ndata[q + 1].has_class_in =>
              /\ \A p \in Parents(q, "question") : ndata[p + 1].has_class_in
              /\ ndata[q + 1].class_in =
                    {ndata[c + 1].class : c \in Parents(q, "class")}
                    \cup UNION {ndata[p + 1].class_in :
                                   p \in Parents(q, "question")}
              /\ ndata[q + 1].class_in =
                    {ndata[c + 1].class :
                        c \in UNION {Parents(a, "class") : a \in UpClosure({q})}}
    /\ evaluator.promise = "resolved" =>
          \A q \in Questions : ndata[q + 1].has_class_in

\* a question with a class parent and two question parents that have a
\* question parent in common has its class inputs
C16_Witness ==
    \E q \in Questions :
        /\ ndata[q + 1].has_class_in
        /\ ndata[q + 1].class_in = {"12345", "67890"}
        /\ Parents(q, "class") # {}
        /\ \E p1 \in Parents(q, "question"), p2 \in Parents(q, "question") :
              /\ p1 # p2
              /\ Parents(p1, "question") \cap Parents(p2, "question") # {}

\* the graph that parse resolved with, from the rows
Parsed == populateGraph(EmptyGraph, TokensOf(parser.rows, 1)).G

\* the cond edges from n to t in the graph that parse resolved with
ParsedConds(n, t) ==
    {e \in 1 .. Len(Parsed.edges) :
        /\ Parsed.heap[Parsed.edges[e]].from = n
        /\ Parsed.heap[Parsed.edges[e]].to = t
        /\ Parsed.edata[Parsed.edges[e]].type = "cond"}

\* C17: collapsing correctness: for a question N with class_in = {A, B} and
\* exactly two cond edges to the same action node with the same action, one
\* with pred A and one with pred B, after evaluate there is exactly one live
\* edge from N to that action node, it has no predicate, and no edge with
\* pred A or pred B from N to it remains.
C17_CollapsingCorrectness ==
    evaluator.promise \in {"resolved", "rejected"} =>
        \A n \in Questions, t \in 0 .. Len(nodes) - 1 :
            LET conds == ParsedConds(n, t)
                preds == {Parsed.edata[Parsed.edges[e]].pred : e \in conds}
            IN  /\ ndata[n + 1].has_class_in
                /\ Cardinality(ndata[n + 1].class_in) = 2
                /\ Cardinality(conds) = 2
                /\ preds = ndata[n + 1].class_in
                /\ Cardinality({Parsed.edata[Parsed.edges[e]].action :
                                   e \in conds}) = 1
                => LET now == {e \in LiveEdges : e.from = n /\ e.to = t}
                   IN  /\ Cardinality(now) = 1
                       /\ \A e \in now : e.data.pred = "undefined"

QuestionXNode == MapGet(index, "q$" \o Join(QuestionX))

\* the cond edges from a node under a condition label
CondsFrom(n, label) ==
    {e \in LiveEdges : e.from = n /\ e.data.type = "cond" /\ e.data.cond = label}

RECURSIVE Reach(_, _)
Reach(S, E) ==
    LET T == S \cup {e.to : e \in {x \in E : x.from \in S}}
    IN  IF T = S THEN S ELSE Reach(T, E)

\* C20 as stated: once parsing has completed, every node other than the
\* root is reachable from the root by classroot and cond edges only.
C20_ReachableByClassrootAndCond ==
    parser.promise = "resolved" =>
        Reach({0}, {e \in LiveEdges : e.data.type \in {"classroot", "cond"}})
            = 0 .. Len(nodes) - 1

\* C20: once parsing has completed, every node other than the root is
\* reachable from the root by a path of classroot edges, edges without a
\* type from a class to a question of one of its rows, and cond edges.
C20_ReachableFromRoot ==
    parser.promise = "resolved" =>
        Reach({0}, {e \in LiveEdges :
                       \/ e.data.type \in {"classroot", "cond"}
                       \/ /\ e.data.type = "undefined"
                          /\ e.from \in NodesOfType("class")
                          /\ e.to \in Questions})
            = 0 .. Len(nodes) - 1

C20_Witness ==
    /\ parser.promise = "resolved"
    /\ NodesOfType("surcharge") # {}
    /\ Cardinality(Questions) >= 3

\* ------------------------------------------------- claims of later sections

\* C29: every edge id returned by addEdgeIfNew denotes a live edge: after
\* addEdgeIfNew(a, b, d, k) returned e and removeEdge(e) succeeded, a further
\* addEdgeIfNew(a, b, d, k) succeeds, returns an id other than e, and the id
\* it returns is that of a live edge.
C29_AddEdgeIfNewReturnsLiveEdge ==
    \A a \in NodeRefs, b \in NodeRefs, k \in EdgeKeys :
        LET r1 == addEdgeIfNew(Graph, a, b, Fresh, k)
            r2 == removeEdge(r1.G, [kind |-> "number", v |-> r1.ret])
            r3 == addEdgeIfNew(r2.G, a, b, Fresh, k)
        IN  (r1.ok /\ Live(r1.G, r1.ret) /\ r2.ok) =>
                /\ r3.ok
                /\ r3.ret # r1.ret
                /\ Live(r3.G, r3.ret)

\* C21: evaluate creates and destroys no node: the number of nodes and the
\* id, type and index key of every node are those of the graph that parse
\* resolved with.  The edges it removes are cond edges, where it has removed
\* edges from n to t it has added exactly one edge from n to t, it adds no
\* other edge, and every other edge is as it was.
C21_EvaluateKeepsNodesAndOtherEdges ==
    evaluator.promise # "none" =>
        LET P       == Parsed
            before  == {[id |-> e - 1, from |-> P.heap[P.edges[e]].from,
                         to |-> P.heap[P.edges[e]].to,
                         data |-> P.edata[P.edges[e]]] :
                           e \in {x \in 1 .. Len(P.edges) :
                                     P.edges[x] # Undefined}}
            after   == LiveEdges
            removed == before \ after
            added   == after \ before
        IN  /\ Len(nodes) = Len(P.nodes)
            /\ \A n \in 1 .. Len(nodes) :
                  /\ nodes[n].id = P.nodes[n].id
                  /\ nodes[n].index = P.nodes[n].index
                  /\ ndata[n].type = P.ndata[n].type
            /\ \A e \in removed : e.data.type = "cond"
            /\ \A e \in added :
                  /\ \E r \in removed : r.from = e.from /\ r.to = e.to
                  /\ \A e2 \in added :
                         (e2.from = e.from /\ e2.to = e.to) => e2 = e
            /\ \A r \in removed :
                  \E e \in added : r.from = e.from /\ r.to = e.to

\* evaluate has run its passes on a question that has cond edges, up to the
\* collapsing, in a graph of two classes
C21_Witness ==
    /\ evaluator.promise = "rejected"
    /\ \E i \in 1 .. Len(evaluator.steps) :
          /\ evaluator.steps[i][2] = "class_in"
          /\ \E e \in LiveEdges :
                e.from = evaluator.steps[i][1] /\ e.data.type = "cond"
    /\ Cardinality(NodesOfType("class")) = 2

\* C22: generateXml only adds nodes of type xml and edges of type xml: every
\* node of the graph that evaluate resolved with keeps its id, type and
\* index key, every edge of that graph is still there with its ends and its
\* data, every further node has type xml and every further edge has type xml.
C22_GenerateXmlAddsXmlOnly ==
    xmlgen.promise # "none" =>
        LET P == Parsed
        IN  /\ Len(nodes) >= Len(P.nodes)
            /\ Len(edges) >= Len(P.edges)
            /\ \A n \in 1 .. Len(nodes) :
                  IF n <= Len(P.nodes)
                  THEN /\ nodes[n].id = P.nodes[n].id
                       /\ nodes[n].index = P.nodes[n].index
                       /\ ndata[n].type = P.ndata[n].type
                  ELSE ndata[n].type = "xml"
            /\ \A e \in 1 .. Len(edges) :
                  IF e <= Len(P.edges)
                  THEN /\ edges[e] = P.edges[e]
                       /\ edges[e] # Undefined =>
                             /\ heap[edges[e]] = P.heap[edges[e]]
                             /\ edata[edges[e]] = P.edata[edges[e]]
                  ELSE /\ edges[e] # Undefined
                       /\ edata[edges[e]].type = "xml"

\* generateXml has added XML nodes and an XML edge to a graph with questions
C22_Witness ==
    /\ xmlgen.promise \in {"resolved", "rejected"}
    /\ Questions # {}
    /\ Cardinality(NodesOfType("xml")) >= 2
    /\ \E e \in LiveEdges : e.data.type = "xml"

RowLines(row) == linematches(concatQset(row, 0).text)

\* the tokens of a line of a row
LineToks(row, j) == lex(RowLines(row)[j], RowLines(row)[j].ws)

\* the action types that make a node of their own (the default of
\* _createActions)
OwnActions == {"surcharge", "exclude", "ineligible", "attach-form", "doc"}

\* a row that is a question followed by conditional lines at greater depth,
\* each of no action or of an action that makes a node of its own
QuestionWithConds(row) ==
    /\ row.has = AllCols
    /\ Len(RowLines(row)) >= 2
    /\ LineToks(row, 1).ok
    /\ Len(LineToks(row, 1).toks) = 1
    /\ LineToks(row, 1).toks[1].type = "question"
    /\ \A j \in 2 .. Len(RowLines(row)) :
          /\ RowLines(row)[j].ws > RowLines(row)[1].ws
          /\ LineToks(row, j).ok
          /\ \/ LineToks(row, j).toks = <<>>
             \/ /\ Len(LineToks(row, j).toks) = 2
                /\ LineToks(row, j).toks[1].type = "cond"
                /\ LineToks(row, j).toks[2].type \in OwnActions

\* line j of the row has its edge: from the row's question to the node of the
\* line's action, with the line's condition, the action's name and the row's
\* class code as pred
CondLineAttached(row, j) ==
    LET q == LineToks(row, 1).toks[1]
        c == LineToks(row, j).toks[1]
        a == LineToks(row, j).toks[2]
    IN  \E e \in LiveEdges :
           /\ nodes[e.from + 1].index = "q$" \o Join(q.value)
           /\ nodes[e.to + 1].index = a.type \o "$" \o Join(a.value)
           /\ e.data = EdgeDataOf("cond", c.value, a.type, row.code)

\* C24: for a question followed in its row by k >= 1 cond lines at greater
\* depth, every cond line that leads to an action has its edge in the graph
\* that parse resolves with: from the question to the action node, with that
\* line's condition text, its action name and the row's class code as pred.
C24_EveryCondLineAttached ==
    parser.promise = "resolved" =>
        \A i \in 1 .. Len(parser.rows) :
            QuestionWithConds(parser.rows[i]) =>
                \A j \in 2 .. Len(RowLines(parser.rows[i])) :
                    LineToks(parser.rows[i], j).toks # <<>> =>
                        CondLineAttached(parser.rows[i], j)

\* the errors with which the graph store refuses a second node under a key
\* or a second edge under an edge index
ReferentialErrors ==
    {"Error: Node index already exists",
     "Error: Edge index already exists for node"}

\* C25: graph construction never fails with a referential error of the graph
\* store (duplicate node key, duplicate edge index), whatever rows were
\* delivered, in particular when two rows carry the same class code and
\* contain the same question with the same condition and action.
C25_NoReferentialError ==
    \A k \in 1 .. Len(parser.uncaught) :
        parser.uncaught[k] \notin ReferentialErrors

\* C26: after parsing, each class code has exactly one class node, and that
\* node has exactly one classroot edge from the classes root, however many
\* rows or class assertions mention the class code.
C26_OneClassrootEdgePerClass ==
    parser.promise = "resolved" =>
        /\ \A c1 \in NodesOfType("class"), c2 \in NodesOfType("class") :
              ndata[c1 + 1].class = ndata[c2 + 1].class => c1 = c2
        /\ \A c \in NodesOfType("class") :
              Cardinality({e \in LiveEdges :
                              /\ nodes[e.from + 1].index = "classes"
                              /\ e.to = c
                              /\ e.data.type = "classroot"}) = 1

\* C28: class-input propagation terminates on every graph the parser can
\* build: _calcClassIns never calls itself for a node whose calculation is
\* still on the call stack (a call that repeats without end until the stack
\* is exhausted), so evaluate never fails for want of stack.
C28_PropagationTerminates ==
    evaluator.reason # "RangeError: Maximum call stack size exceeded"

\* the nodes on which the collapsing has run
Collapsed == {evaluator.steps[i][1] : i \in 1 .. Len(evaluator.steps)}

\* the cond edges from n to t with an action, in the graph that parse
\* resolved with: a group
GroupOf(P, n, t, action) ==
    {[id |-> e - 1, from |-> n, to |-> t, data |-> P.edata[P.edges[e]]] :
        e \in {x \in 1 .. Len(P.edges) :
                  /\ P.edges[x] # Undefined
                  /\ P.heap[P.edges[x]].from = n
                  /\ P.heap[P.edges[x]].to = t
                  /\ P.edata[P.edges[x]].type = "cond"
                  /\ P.edata[P.edges[x]].action = action}}

EdgeActions == {"surcharge", "exclude", "question", "ineligible",
                "attach-form", "doc", "assert-class"}

CondTexts(E, n, t) ==
    {e.data.cond : e \in {x \in E : /\ x.from = n /\ x.to = t
                                    /\ x.data.type = "cond"}}

====
